---- MODULE Spec2Model ----
(***************************************************************************)
(* Ingestion pipeline of temporallayr-server: IngestionService             *)
(* (app/services/ingestion_service.py) with its queue, its background      *)
(* worker, its _write_batch routine (EventStream publication, storage      *)
(* write, rule/heuristic detection, incident grouping by fingerprint,      *)
(* alert dispatch) and its start/stop lifecycle.                           *)
(*                                                                         *)
(* Time is counted in seconds.  Everything between two awaits of a         *)
(* coroutine is one step.                                                  *)
(***************************************************************************)
EXTENDS Integers, Sequences, FiniteSets, TLC

(***************************************************************************)
(* Bounds of the model and program constants                               *)
(***************************************************************************)
\* constructor parameter max_batch_size of the modelled instance
MaxBatchSize == 2
\* constructor parameter flush_interval of the modelled instance (seconds)
FlushInterval == 2
\* capacity of the asyncio.Queue (10000 in start()), scaled down
QueueMaxsize == 1
\* number of events the producers offer over a run
MaxEvents == 3
\* longest events[] list of one enqueue call
MaxEnqueueLen == 2
\* last second of the modelled clock of the pipeline
MaxNow == 7
\* number of direct _write_batch calls of the incident scenario
MaxDirectCalls == 3
\* number of half-day clock steps of the incident scenario
MaxJumps == 3

\* asyncio.sleep(5) after a failed batch write
Backoff == 5
\* timedelta(hours=24) of the incident lookup
WindowHours == 24
SecondsPerHour == 60 * 60
DedupWindow == WindowHours * SecondsPerHour
\* step of the clock in the incident scenario: half a day
JumpSeconds == 12 * SecondsPerHour

Tenants == {"t1", "t2"}

\* "unknown" / missing created_at of a node: not an ISO timestamp
Unknown == -1
\* _ingested_at absent from the payload (direct _write_batch call)
NoStamp == -1
\* created_at values a client puts on a failing node
ClientTimes == {0, 10 * SecondsPerHour}

(***************************************************************************)
(* Event payloads.  det says what the detection stage finds in it:         *)
(*   "rule"  a rule with actions.create_incident matched                   *)
(*   "heur"  no rule matched, node metadata carries an error marker        *)
(*   "none"  neither                                                       *)
(***************************************************************************)
Kind(det, ftype, node, created, exec) ==
    [det |-> det, ftype |-> ftype, node |-> node, created_at |-> created,
     exec |-> exec]

KindNoExec == Kind("none", "", "", Unknown, FALSE)
KindRule == Kind("rule", "execution_latency", "analyzer", Unknown, TRUE)

HeurKind(node, created) == Kind("heur", "runtime_error", node, created, TRUE)

\* created_at of a failing node given as a number of seconds, not as text
NotAString == -2

\* no execution id, a failing node whose created_at is not a string
PoisonKind == Kind("heur", "runtime_error", "A", NotAString, FALSE)

\* payloads offered to the pipeline in the fault scenario
FaultKinds == {KindNoExec, PoisonKind}

\* rows in storage up to which the fault scenario follows a worker that
\* writes its batch again
MaxStored == 2

\* asyncio.sleep(1) of the worker's exception handler
CrashSleep == 1

\* payloads offered to the running pipeline
PipelineKinds == {KindNoExec, HeurKind("A", 0)}
PipelineTenants == {"t1"}

\* payloads handed to _write_batch directly in the incident scenario
DedupKinds ==
    {HeurKind("A", c) : c \in ClientTimes \cup {Unknown}} \cup {KindRule}

(***************************************************************************)
(* Real-time fan-out: the connections and the events of the two            *)
(* StreamManager generations                                               *)
(***************************************************************************)
\* capacity of a subscriber queue (Queue(maxsize=100) in stream_manager.py,
\* Queue(maxsize=1000) in manager.py), scaled down
SubscriberQueueMax == 2
\* number of events published over a run
MaxPublishes == 3

\* the WebSocket objects of a run
Sockets == {"s1", "s2"}

\* filters of a subscription: the key "node" present or not, incident_only
SubFilter(has_node, node, incident_only) ==
    [has_node |-> has_node, node |-> node, incident_only |-> incident_only]

\* tenant and filters of the subscriptions of a run
SubscriberChoices ==
    {<<"t1", SubFilter(TRUE, "X", FALSE)>>,
     <<"t1", SubFilter(FALSE, "", TRUE)>>,
     <<"t2", SubFilter(FALSE, "", FALSE)>>}

StreamEvent(gen, seq, tenant, node, flag) ==
    [gen |-> gen, seq |-> seq, tenant_id |-> tenant, node |-> node,
     incident_flag |-> flag]

NoEvent == StreamEvent(0, 0, "", "", FALSE)

\* events handed to publish_event: tenant, node, incident_flag
PublishChoices ==
    {<<"t1", "X", FALSE>>, <<"t1", "Y", TRUE>>, <<"t2", "X", TRUE>>}

(***************************************************************************)
(* Detection rules: the rows the table can hold, the callers of the store  *)
(***************************************************************************)
\* constructor parameter cache_ttl of the modelled RuleStore (seconds)
CacheTtl == 2
\* last second of the modelled clock of the rule store
MaxRuleNow == 2
\* number of add_rule / delete_rule calls of a run
MaxRuleOps == 1
\* number of get_rules_for_tenant calls of a run
MaxGetCalls == 2

\* rows of detection_rules by id: condition execution_latency with the given
\* threshold
RuleCatalog ==
    <<[priority |-> 1, enabled |-> TRUE, threshold |-> 100],
      [priority |-> 2, enabled |-> TRUE, threshold |-> 100],
      [priority |-> 2, enabled |-> TRUE, threshold |-> 500],
      [priority |-> 3, enabled |-> FALSE, threshold |-> 100]>>

\* the rows of the table when the process starts
InitialRules == {1, 2, 4}

\* the event handed to evaluate_event
RuleEvent == [tenant_id |-> "t1", duration |-> 300]

\* callers of get_rules_for_tenant: GET /v1/rules, RuleEngine.evaluate_event
Getters == {"api", "engine"}

\* tenant_id not in _last_refresh
NoRefresh == -1

IdleGetter ==
    [pc |-> "idle", at |-> 0, need |-> 0, waited |-> FALSE, served |-> FALSE,
     rules |-> <<>>, ver |-> 0, ok |-> TRUE]

NoGet ==
    [who |-> "", need |-> 0, ver |-> 0, ok |-> TRUE, fetched |-> FALSE,
     hit |-> FALSE, waited |-> FALSE]

NoEval == [rules |-> <<>>, evaluated |-> <<>>, result |-> 0]

\* _send_webhook(url, payload, max_retries=3)
MaxRetries == 3

\* incidents handed to process_incident in one run
MaxIncidents == 2

\* rule.node_name is None
NoNode == "None"

\* the tenant of the default TEMPORALLAYR_DEV_KEYS key
DevTenant == "dev-test-key"

\* rows of the alert_rules table; an empty webhook_url stands for a falsy one
AlertRuleCatalog ==
    <<[id |-> 1, tenant_id |-> "t1", failure_type |-> "runtime_error",
       node_name |-> NoNode, webhook_url |-> "u1"],
      [id |-> 2, tenant_id |-> "t1", failure_type |-> "runtime_error",
       node_name |-> "A", webhook_url |-> "u2"],
      [id |-> 3, tenant_id |-> "t1", failure_type |-> "runtime_error",
       node_name |-> "A", webhook_url |-> ""],
      [id |-> 4, tenant_id |-> "t1", failure_type |-> "timeout",
       node_name |-> NoNode, webhook_url |-> "u4"],
      [id |-> 5, tenant_id |-> "t2", failure_type |-> "runtime_error",
       node_name |-> "B", webhook_url |-> "u5"],
      [id |-> 6, tenant_id |-> DevTenant, failure_type |-> "timeout",
       node_name |-> NoNode, webhook_url |-> "u6"]>>

\* the rows stored before the run and the row create_alert_rule may add
InitialAlertRules == 1..5

\* class MockRule of _evaluate_and_fire_alerts
MockRule ==
    [id |-> 0, tenant_id |-> DevTenant, failure_type |-> "runtime_error",
     node_name |-> NoNode, webhook_url |-> "https://example.com/webhook"]

\* the payloads _write_batch builds for new incidents
IncidentChoices ==
    {[id |-> "i1", tenant_id |-> "t1", failure_type |-> "runtime_error",
      node_name |-> "A"],
     [id |-> "i2", tenant_id |-> "t2", failure_type |-> "runtime_error",
      node_name |-> "A"],
     [id |-> "i3", tenant_id |-> DevTenant, failure_type |-> "runtime_error",
      node_name |-> "A"]}

\* how the rule lookup of a dispatch task ends
LookupOutcomes == {"answered", "failed", "raised"}

\* how one POST attempt ends
PostOutcomes == {"2xx", "non2xx", "timeout", "error"}

(***************************************************************************)
(* Query engine: the rows a search matches, the requests                   *)
(***************************************************************************)
\* QueryEngine(max_limit=5000), scaled down
MaxLimit == 3

\* the events of the tenant that match the filters, in the order of the
\* statement, each given by the names of its graph nodes
EventRows == <<<<"X", "Y">>, <<>>, <<"X", "X", "Y">>, <<"Y">>, <<"X">>>>

SearchKinds == {"events", "incidents", "nodes", "clusters"}

\* the fetch returns in time, exceeds default_timeout, or raises
StorageStates == {"ok", "slow", "failing"}

\* query.limit values (the request model bounds it above only at the API)
RequestedLimits == 0..(MaxLimit + 2)

\* filters.node_name: unset, or the node looked for
NodeFilters == {"", "X"}

NoQuery == [kind |-> "", limit |-> 0, node_name |-> "", storage |-> "",
            raised |-> FALSE, data |-> <<>>, partial |-> FALSE]

(***************************************************************************)
(* Failure detector: the shapes of the payloads handed to it               *)
(***************************************************************************)
\* a node of the list: not a mapping; a mapping without metadata; with
\* metadata that is not a mapping; with metadata whose text holds no marker;
\* with metadata whose text holds "error", "exception" or "traceback"
NodeShapes == {"notdict", "nometa", "meta_notdict", "clean", "error",
               "exception", "traceback"}

Markers == {"error", "exception", "traceback"}

\* longest node list of a payload
MaxNodes == 2

\* a value found where a node list is expected
NotList == [is_list |-> FALSE, items |-> <<>>]

ListOf(items) == [is_list |-> TRUE, items |-> items]

NodeLists ==
    {NotList} \cup
    {ListOf(s) : s \in UNION {[1..n -> NodeShapes] : n \in 0..MaxNodes}}

\* execution: not a mapping, or a mapping whose "graph" is absent, not a
\* mapping, a mapping without "nodes" or a mapping with "nodes", and whose
\* own "nodes" is absent (has_nodes FALSE) or a value
Payload(is_dict, graph, graph_nodes, has_nodes, nodes) ==
    [is_dict |-> is_dict, graph |-> graph, graph_nodes |-> graph_nodes,
     has_nodes |-> has_nodes, nodes |-> nodes]

NoPayload == Payload(FALSE, "absent", NotList, FALSE, NotList)

Payloads ==
    {NoPayload}
    \cup {Payload(TRUE, "nodes", g, h, ListOf(<<"error">>)) :
             g \in NodeLists, h \in BOOLEAN}
    \cup {Payload(TRUE, g, NotList, TRUE, n) :
             g \in {"absent", "notdict", "nonodes"}, n \in NodeLists}
    \cup {Payload(TRUE, g, NotList, FALSE, NotList) :
             g \in {"absent", "notdict", "nonodes"}}

\* return None
NoDetection == [found |-> FALSE, raised |-> FALSE, failure_type |-> "",
                node |-> 0, shape |-> ""]

NoDetect == [payload |-> NoPayload, result |-> NoDetection]

(***************************************************************************)
(* Time series: the streamed events, the samples of a percentile           *)
(***************************************************************************)
\* longest stream of events of one aggregation
MaxStream == 3
\* event timestamps, in seconds of the epoch (before and after 0)
StreamTimes == -2..3
\* interval_seconds values
Intervals == {1, 2, 3}

\* the metric parameter of an aggregation
Metrics == {"execution_count", "error_rate"}

\* events followed through the detection and broadcast stage
MaxStageItems == 2
\* what the wait for rule_engine.evaluate_event gives: no result, a rule with
\* actions.create_incident, a rule without it, the 50 ms timeout, an exception
RuleOutcomes == {"none", "incident", "quiet", "timeout", "error"}

\* the ways the aggregation fields of a stored payload can be malformed
MalformedShapes ==
    {"metrics_not_mapping", "duration_not_numeric", "status_not_string"}

\* no aggregation yet
NoSeries == [pc |-> "idle", interval |-> 1, metric |-> "execution_count",
             events |-> <<>>, buckets |-> <<>>, series |-> <<>>]

\* latency samples and the lists handed to _compute_percentile: every list
\* of up to MaxSamples samples, and the list of the documented example in
\* two orders
MaxSamples == 3
SampleValues == {10, 20, 30}
ExampleSamples == <<10, 20, 30, 40, 50>>
ExampleShuffled == <<40, 10, 50, 30, 20>>
SampleLists ==
    UNION {[1..n -> SampleValues] : n \in 0..MaxSamples}
    \cup {ExampleSamples, ExampleShuffled}
Percentiles == {0, 25, 50, 90, 95, 100}

NoPercentile == [data |-> <<>>, p |-> 0, value100 |-> 0]

(***************************************************************************)
(* POST /v1/ingest                                                         *)
(***************************************************************************)
\* longest events array of a request
MaxRequestEvents == 2
\* values of app.state.db_status
DbStatuses == {"unknown", "connecting", "connected", "disconnected"}

\* the header X-Tenant-ID or the body field tenant_id is not given (None)
NoTenantId == "None"
\* values of the header X-Tenant-ID and of the body field tenant_id
HeaderTenants == Tenants \cup {NoTenantId}
BodyTenants == Tenants \cup {NoTenantId}
\* no event of the request was handed to service.enqueue
NotEnqueued == "-"

NoRequest == [pc |-> "none", n |-> 0, authed |-> FALSE,
              header_tenant |-> NoTenantId, body_tenant |-> NoTenantId]

NoResponse == [code |-> 0, status |-> "", ingested |-> 0, enqueued |-> 0,
               n |-> 0, authed |-> FALSE, db |-> "",
               header_tenant |-> NoTenantId, body_tenant |-> NoTenantId,
               tenant |-> NotEnqueued]

NoCall == [who |-> "none", items |-> <<>>, idx |-> 0, phase |-> "idle"]
NoFail == [items |-> <<>>, at |-> -1]
NoCheck == [len |-> 0, elapsed |-> 0, flushed |-> FALSE]
NoDet == [n |-> 0, tenant |-> "", fingerprint |-> <<>>, dt |-> 0, db |-> "",
          event |-> 0, before |-> <<>>]

VARIABLES
    is_running,       \* IngestionService._is_running
    has_queue,        \* IngestionService._queue is not None
    queue,            \* content of IngestionService._queue
    worker,           \* position of _process_queue: none, wait, write, backoff,
                      \* crashed (asleep in its exception handler), dead
    batch,            \* local list batch of _process_queue
    last_flush,       \* local last_flush of _process_queue
    wake_at,          \* end of the asyncio.sleep(5) of the worker
    call,             \* the _write_batch call in progress
    pending,          \* events of the enqueue call in progress not yet put
    pending_stamp,    \* _ingested_at taken for the head of pending
    stop_pc,          \* position of stop(): none, write, done, raised
    now,              \* the clock
    jumps,            \* half-day clock steps taken
    nextId,           \* next event identity
    stored,           \* events committed by bulk_insert_events, in order
    incidents,        \* rows of the incidents table
    dispatched,       \* incident ids handed to process_incident, in order
    stream_published, \* per event: execution_ingested publications on EventStream
    processed,        \* per event: passes through the detection/broadcast loop
    det_log,          \* the latest detection that reached the incident upsert,
                      \* with the rows of the table before it
    failed_write,     \* batch and time of the worker's last failed write
    failed_ids,       \* events that were in a failed or timed out write
    last_check,       \* the worker's latest flush decision
    accepted,         \* events put in the queue before stop() began
    late_accepted,    \* events put in the queue by enqueue calls made after
                      \* stop() began
    final_ids         \* events submitted to the final write of stop()

\* state of the StreamManager of app/stream/manager.py (endpoint /stream), of
\* the StreamManager of app/stream/stream_manager.py (endpoint /stream/ws) and
\* of the connections they serve
VARIABLES
    conn,               \* per socket: endpoint it connected to, handler position
    active_connections, \* manager.py: socket -> tenant_id, filters, queue
    clients,            \* stream_manager.py _clients: tenant -> list of sockets
    client_queues,      \* stream_manager.py _client_queues: socket -> queue
    client_tasks,       \* stream_manager.py _client_tasks: sockets with a task
    sender,             \* per socket: position of its sender loop, item it sends
    heartbeat,          \* per socket: position of manager.py's _heartbeat_loop
    published,          \* events handed to publish_event / broadcast_event
    since,              \* per socket: length of published when it subscribed
    drained,            \* per socket: its sender loop has taken an item
    unsub_calls         \* per socket: unsubscribe / remove_client calls made

\* state of the RuleStore (app/rules/store.py), of the calls into it and of
\* the detection_rules table
VARIABLES
    rule_db,        \* ids of the rows of detection_rules (tenant t1)
    db_ver,         \* commits made to detection_rules
    acked_ver,      \* commits whose add_rule / delete_rule call has returned
                    \* its result
    rule_cache,     \* RuleStore._rule_cache[t1], with the commit count it
                    \* was read at
    last_refresh,   \* RuleStore._last_refresh[t1], NoRefresh when absent
    rule_lock,      \* RuleStore._lock: its owner, then the waiters in order
    getter,         \* per caller: its get_rules_for_tenant call
    admin,          \* position of the add_rule / delete_rule call
    rule_ops,       \* add_rule / delete_rule calls made
    get_calls,      \* get_rules_for_tenant calls made
    rule_now,       \* time.time()
    last_get,       \* the latest get_rules_for_tenant call that returned
    eval_log        \* the latest evaluate_event: rules it got, rules it
                    \* evaluated in order, rule it returned

pipelineVars ==
    <<is_running, has_queue, queue, worker, batch, last_flush, wake_at,
      call, pending, pending_stamp, stop_pc, now, jumps, nextId, stored,
      incidents, dispatched, stream_published, processed, det_log,
      failed_write, failed_ids, last_check, accepted, late_accepted,
      final_ids>>

streamVars ==
    <<conn, active_connections, clients, client_queues, client_tasks, sender,
      heartbeat, published, since, drained, unsub_calls>>

ruleVars ==
    <<rule_db, db_ver, acked_ver, rule_cache, last_refresh, rule_lock, getter,
      admin, rule_ops, get_calls, rule_now, last_get, eval_log>>

VARIABLES
    alert_rules,      \* ids of the rows of the alert_rules table
    alert_worker,     \* the caller of process_incident: incidents handed over,
                      \* and the task it is waiting for (0: none)
    alert_tasks,      \* the _evaluate_and_fire_alerts tasks, in creation order
    deliveries        \* the _send_webhook tasks, in creation order

alertVars == <<alert_rules, alert_worker, alert_tasks, deliveries>>

\* the latest call of each read-side routine with what it returned, and the
\* POST /v1/ingest request in progress
VARIABLES
    query_log,      \* QueryEngine.search_*: request, state of storage, result
    detect_log,     \* detect_execution_failure: payload, result
    series_log,     \* aggregate_timeseries: streamed events, interval, series
    pct_log,        \* _compute_percentile: samples, percentile, result
    db_status,      \* app.state.db_status, as the middleware and the route see it
    ingest_req,     \* the ingest request between the middleware and the route
    ingest_log      \* the latest ingest response, with what was enqueued

\* the detection and broadcast stage of _write_batch, event by event
VARIABLES
    stage_log       \* per event taken through the stage: what rule evaluation
                    \* gave, whether the heuristic ran, the frames created

stageVars == <<stage_log>>

apiVars == <<query_log, detect_log, series_log, pct_log, db_status,
             ingest_req, ingest_log, stageVars>>

coreVars == <<pipelineVars, streamVars, ruleVars, alertVars, stageVars>>

vars == <<pipelineVars, streamVars, ruleVars, alertVars, apiVars>>

Ids(items) == {items[i].id : i \in 1..Len(items)}

\* the rows of a write stored last event first
IdSeqReversed(items) ==
    [i \in 1..Len(items) |-> items[Len(items) + 1 - i].id]

IdSeq(items) == [i \in 1..Len(items) |-> items[i].id]

IsPrefix(s, t) == Len(s) <= Len(t) /\ \A i \in 1..Len(s) : s[i] = t[i]

AllIds == 1..(MaxEvents + MaxDirectCalls + 2)

Init ==
    /\ is_running = FALSE
    /\ has_queue = FALSE
    /\ queue = <<>>
    /\ worker = "none"
    /\ batch = <<>>
    /\ last_flush = 0
    /\ wake_at = 0
    /\ call = NoCall
    /\ pending = <<>>
    /\ pending_stamp = 0
    /\ stop_pc = "none"
    /\ now = 0
    /\ jumps = 0
    /\ nextId = 1
    /\ stored = <<>>
    /\ incidents = <<>>
    /\ dispatched = <<>>
    /\ stream_published = [i \in AllIds |-> 0]
    /\ processed = [i \in AllIds |-> 0]
    /\ det_log = NoDet
    /\ failed_write = NoFail
    /\ failed_ids = {}
    /\ last_check = NoCheck
    /\ accepted = {}
    /\ late_accepted = {}
    /\ final_ids = {}
    /\ conn = [s \in Sockets |-> [gen |-> 0, pc |-> "new"]]
    /\ active_connections = [s \in {} |-> 0]
    /\ clients = [s \in {} |-> 0]
    /\ client_queues = [s \in {} |-> 0]
    /\ client_tasks = {}
    /\ sender = [s \in Sockets |-> [pc |-> "none", item |-> NoEvent]]
    /\ heartbeat = [s \in Sockets |-> "none"]
    /\ published = <<>>
    /\ since = [s \in Sockets |-> 0]
    /\ drained = [s \in Sockets |-> FALSE]
    /\ unsub_calls = [s \in Sockets |-> 0]
    /\ rule_db = InitialRules
    /\ db_ver = 0
    /\ acked_ver = 0
    /\ rule_cache = [rules |-> <<>>, ver |-> 0, ok |-> TRUE]
    /\ last_refresh = NoRefresh
    /\ rule_lock = <<>>
    /\ getter = [c \in Getters |-> IdleGetter]
    /\ admin = "idle"
    /\ rule_ops = 0
    /\ get_calls = 0
    /\ rule_now = 0
    /\ last_get = NoGet
    /\ eval_log = NoEval
    /\ alert_rules = InitialAlertRules
    /\ alert_worker = [handed |-> 0, wait |-> 0]
    /\ alert_tasks = <<>>
    /\ deliveries = <<>>
    /\ query_log = NoQuery
    /\ detect_log = NoDetect
    /\ series_log = NoSeries
    /\ pct_log = NoPercentile
    /\ db_status = "unknown"
    /\ ingest_req = NoRequest
    /\ ingest_log = NoResponse
    /\ stage_log = <<>>

(***************************************************************************)
(* start(): creates the queue and the worker task                          *)
(***************************************************************************)
Start ==
    /\ ~is_running
    /\ worker = "none"
    /\ stop_pc = "none"
    /\ is_running' = TRUE
    /\ has_queue' = TRUE
    /\ queue' = <<>>
    /\ worker' = "wait"
    /\ batch' = <<>>
    /\ last_flush' = now
    /\ UNCHANGED <<wake_at, call, pending, pending_stamp, stop_pc, now,
                   jumps, nextId, stored, incidents, dispatched,
                   stream_published, processed, det_log, failed_write,
                   failed_ids, last_check, accepted, late_accepted,
                   final_ids>>
    /\ UNCHANGED <<streamVars, ruleVars, alertVars, apiVars>>

(***************************************************************************)
(* enqueue(tenant_id, events): for each event, stamp _ingested_at and      *)
(* await self._queue.put(...).  put does not suspend while the queue has   *)
(* room, so the events that fit are put in one step; at a full queue the   *)
(* call is suspended (pending holds the events still to put) until the     *)
(* worker has taken an item.                                               *)
(***************************************************************************)
EventLists ==
    UNION {[1..n -> PipelineKinds] : n \in 1..MaxEnqueueLen}

Min(a, b) == IF a <= b THEN a ELSE b

\* how many of the events evs fit into the queue now
Fits(evs) == Min(Len(evs), QueueMaxsize - Len(queue))

\* the queue after the puts that do not suspend; the first event was
\* stamped at time stamp, the following ones are stamped now
QueueAfterPuts(evs, stamp) ==
    queue \o [i \in 1..Fits(evs) |->
                [id |-> nextId + i - 1,
                 tenant |-> evs[i].tenant,
                 kind |-> evs[i].kind,
                 ingested_at |-> IF i = 1 THEN stamp ELSE now]]

PutIds(evs) == {nextId + i - 1 : i \in 1..Fits(evs)}

PutRun(evs, stamp) ==
    /\ queue' = QueueAfterPuts(evs, stamp)
    /\ pending' = SubSeq(evs, Fits(evs) + 1, Len(evs))
    /\ pending_stamp' = now
    /\ nextId' = nextId + Fits(evs)
    /\ accepted' = IF stop_pc = "none" THEN accepted \cup PutIds(evs)
                   ELSE accepted
    /\ late_accepted' = IF evs[1].late THEN late_accepted \cup PutIds(evs)
                        ELSE late_accepted

EnqueueCall ==
    /\ has_queue
    /\ pending = <<>>
    /\ \E t \in PipelineTenants, evs \in EventLists :
        /\ nextId + Len(evs) <= MaxEvents + 1
        /\ PutRun([i \in 1..Len(evs) |->
                      [tenant |-> t, kind |-> evs[i],
                       late |-> stop_pc # "none"]], now)
    /\ UNCHANGED <<is_running, has_queue, worker, batch, last_flush, wake_at,
                   call, stop_pc, now, jumps, stored, incidents, dispatched,
                   stream_published, processed, det_log, failed_write,
                   failed_ids, last_check, final_ids>>
    /\ UNCHANGED <<streamVars, ruleVars, alertVars, apiVars>>

\* the suspended put is resumed once the queue has room
EnqueuePut ==
    /\ pending # <<>>
    /\ Len(queue) < QueueMaxsize
    /\ PutRun(pending, pending_stamp)
    /\ UNCHANGED <<is_running, has_queue, worker, batch, last_flush, wake_at,
                   call, stop_pc, now, jumps, stored, incidents, dispatched,
                   stream_published, processed, det_log, failed_write,
                   failed_ids, last_check, final_ids>>
    /\ UNCHANGED <<streamVars, ruleVars, alertVars, apiVars>>

(***************************************************************************)
(* _write_batch, first part: publication of execution_ingested on          *)
(* EventStream for every item with an execution id and a tenant, then the  *)
(* storage write is awaited.                                               *)
(***************************************************************************)
PublishAll(items) ==
    [i \in AllIds |->
        IF \E k \in 1..Len(items) :
              items[k].id = i /\ items[k].kind.exec /\ items[k].tenant # ""
        THEN stream_published[i] + 1
        ELSE stream_published[i]]

BeginWriteBatch(who, items) ==
    /\ call' = [who |-> who, items |-> items, idx |-> 0, phase |-> "storage"]
    /\ stream_published' = PublishAll(items)

(***************************************************************************)
(* The worker's handling of the value _write_batch returns:                *)
(* success clears the batch, failure keeps it and sleeps 5 s.              *)
(***************************************************************************)
\* the batch cleared whatever the write returned
RetainedBatchCleared(b, success) == <<>>

RetainedBatch(b, success) == IF success THEN <<>> ELSE b

WriteReturn(success) ==
    /\ call' = NoCall
    /\ IF call.who = "worker"
       THEN /\ batch' = RetainedBatch(batch, success)
            /\ IF success
               THEN /\ worker' = "wait"
                    /\ last_flush' = now
                    /\ failed_write' = NoFail
                    /\ UNCHANGED wake_at
               ELSE /\ worker' = "backoff"
                    /\ wake_at' = now + Backoff
                    /\ failed_write' = [items |-> batch, at |-> now]
                    /\ UNCHANGED last_flush
            /\ UNCHANGED stop_pc
       ELSE /\ stop_pc' = IF call.who = "stop" THEN "done" ELSE stop_pc
            /\ UNCHANGED <<worker, batch, last_flush, wake_at, failed_write>>

StorageOutcomes == {"ok", "fail", "timeout"}

WriteStorage ==
    /\ call.phase = "storage"
    /\ \E outcome \in StorageOutcomes :
        IF outcome = "ok"
        THEN /\ stored' = stored \o IdSeq(call.items)
             /\ call' = [call EXCEPT !.phase = "process", !.idx = 1]
             /\ UNCHANGED <<worker, batch, last_flush, wake_at, failed_write,
                            stop_pc, failed_ids>>
        ELSE /\ failed_ids' = failed_ids \cup Ids(call.items)
             /\ WriteReturn(FALSE)
             /\ UNCHANGED stored
    /\ UNCHANGED <<is_running, has_queue, queue, pending, pending_stamp, now,
                   jumps, nextId, incidents, dispatched, stream_published,
                   processed, det_log, last_check, accepted, late_accepted,
                   final_ids>>
    /\ UNCHANGED <<streamVars, ruleVars, alertVars, apiVars>>

(***************************************************************************)
(* _write_batch, second part, one item of the batch: detection, then the   *)
(* incident lookup by tenant, fingerprint and 24 h window, then increment  *)
(* or insert, and process_incident only for an inserted row.               *)
(***************************************************************************)
NoIncident == [det |-> "none"]

Detect(item) ==
    IF item.kind.det = "rule"
    THEN [det |-> "rule", tenant |-> item.tenant,
          failure_type |-> item.kind.ftype, node_name |-> item.kind.node,
          dt |-> IF item.ingested_at = NoStamp THEN now ELSE item.ingested_at]
    ELSE IF item.kind.det = "heur"
    THEN [det |-> "heur", tenant |-> item.tenant,
          failure_type |-> item.kind.ftype, node_name |-> item.kind.node,
          dt |-> IF item.kind.created_at = Unknown THEN now
                 ELSE item.kind.created_at]
    ELSE NoIncident

\* sha256 of "failure_type:node_name", taken as collision free
Fingerprint(inc) == <<inc.failure_type, inc.node_name>>

\* the window taken in minutes instead of hours
InWindowMinutes(ts, dt) == ts >= dt - WindowHours * 60

\* the lookup without its timestamp condition
InWindowUnbounded(ts, dt) == TRUE

InWindow(ts, dt) == ts >= dt - DedupWindow

Candidates(inc) ==
    {i \in 1..Len(incidents) :
        /\ incidents[i].tenant_id = inc.tenant
        /\ incidents[i].fingerprint = Fingerprint(inc)
        /\ InWindow(incidents[i].timestamp, inc.dt)}

\* order_by(timestamp.desc()).limit(1): any row of the latest timestamp
Latest(inc) ==
    {i \in Candidates(inc) :
        \A j \in Candidates(inc) :
            incidents[j].timestamp <= incidents[i].timestamp}

NewIncident(inc, item) ==
    [id |-> Len(incidents) + 1, tenant_id |-> inc.tenant,
     execution_id |-> item.id, timestamp |-> inc.dt,
     fingerprint |-> Fingerprint(inc), occurrence_count |-> 1]

\* the alert fired for every detection
ShouldDispatchAlways(existing) == TRUE

\* existing = 0 stands for existing_incident is None
ShouldDispatch(existing) == existing = 0

Grouped(i, inc) ==
    [incidents EXCEPT ![i].occurrence_count = @ + 1, ![i].timestamp = inc.dt]

UpsertWith(existing, inc, item) ==
    /\ incidents' = IF existing = 0
                    THEN Append(incidents, NewIncident(inc, item))
                    ELSE Grouped(existing, inc)
    /\ dispatched' = IF ShouldDispatch(existing)
                     THEN Append(dispatched, Len(incidents'))
                     ELSE dispatched

\* the lookup and the commit both succeed, the lookup raises, the commit
\* raises (a missing session maker already fails the storage write)
DbOutcomes == {"ok", "query_error", "commit_error"}

Upsert(inc, item) ==
    \E db \in DbOutcomes :
        /\ det_log' = [n |-> det_log.n + 1, tenant |-> inc.tenant,
                       fingerprint |-> Fingerprint(inc), dt |-> inc.dt,
                       db |-> db, event |-> item.id, before |-> incidents]
        /\ CASE db = "ok" ->
                    IF Latest(inc) = {}
                    THEN UpsertWith(0, inc, item)
                    ELSE \E i \in Latest(inc) : UpsertWith(i, inc, item)
             [] db = "query_error" -> UpsertWith(0, inc, item)
             [] OTHER -> UNCHANGED <<incidents, dispatched>>

\* ts_str.replace("Z", "+00:00") on a timestamp that is not a string raises
\* AttributeError, which the except ValueError around it does not catch
Raises(item) ==
    item.kind.det = "heur" /\ item.kind.created_at = NotAString

WriteProcessItem ==
    /\ call.phase = "process"
    /\ ~Raises(call.items[call.idx])
    /\ LET item == call.items[call.idx]
           inc == Detect(item)
       IN /\ processed' = [processed EXCEPT ![item.id] = @ + 1]
          /\ IF inc.det = "none"
             THEN UNCHANGED <<incidents, dispatched, det_log>>
             ELSE Upsert(inc, item)
    /\ IF call.idx = Len(call.items)
       THEN WriteReturn(TRUE)
       ELSE /\ call' = [call EXCEPT !.idx = @ + 1]
            /\ UNCHANGED <<worker, batch, last_flush, wake_at, failed_write,
                           stop_pc>>
    /\ UNCHANGED <<is_running, has_queue, queue, pending, pending_stamp, now,
                   jumps, nextId, stored, stream_published, failed_ids,
                   last_check, accepted, late_accepted, final_ids>>
    /\ UNCHANGED <<streamVars, ruleVars, alertVars, apiVars>>

(***************************************************************************)
(* _process_queue: the worker waits for an item or for the flush timer,    *)
(* then decides whether the batch is flushed.                              *)
(***************************************************************************)
\* both triggers required instead of either
FlushDueBoth(len, elapsed) == len >= MaxBatchSize /\ elapsed >= FlushInterval

FlushDue(len, elapsed) == len >= MaxBatchSize \/ elapsed >= FlushInterval

\* lines 78-92 with the batch b the worker now holds
FlushCheck(b) ==
    LET elapsed == now - last_flush
        due == FlushDue(Len(b), elapsed)
    IN /\ batch' = b
       /\ last_check' = [len |-> Len(b), elapsed |-> elapsed,
                         flushed |-> due /\ b # <<>>]
       /\ IF due /\ b # <<>>
          THEN /\ BeginWriteBatch("worker", b)
               /\ worker' = "write"
               /\ UNCHANGED last_flush
          ELSE /\ worker' = "wait"
               /\ last_flush' = IF due THEN now ELSE last_flush
               /\ UNCHANGED <<call, stream_published>>

WorkerGet ==
    /\ worker = "wait"
    /\ is_running
    /\ queue # <<>>
    /\ queue' = Tail(queue)
    /\ FlushCheck(Append(batch, Head(queue)))
    /\ UNCHANGED <<is_running, has_queue, wake_at, pending, pending_stamp,
                   stop_pc, now, jumps, nextId, stored, incidents,
                   dispatched, processed, det_log, failed_write, failed_ids,
                   accepted, late_accepted, final_ids>>
    /\ UNCHANGED <<streamVars, ruleVars, alertVars, apiVars>>

WorkerTimeout ==
    /\ worker = "wait"
    /\ is_running
    /\ now - last_flush >= FlushInterval
    /\ FlushCheck(batch)
    /\ UNCHANGED <<is_running, has_queue, queue, wake_at, pending,
                   pending_stamp, stop_pc, now, jumps, nextId, stored,
                   incidents, dispatched, processed, det_log, failed_write,
                   failed_ids, accepted, late_accepted, final_ids>>
    /\ UNCHANGED <<streamVars, ruleVars, alertVars, apiVars>>

\* the sleep(5) after a failed write is over: last_flush is reset
WorkerWake ==
    /\ worker = "backoff"
    /\ now >= wake_at
    /\ worker' = "wait"
    /\ last_flush' = now
    /\ UNCHANGED <<is_running, has_queue, queue, batch, wake_at, call,
                   pending, pending_stamp, stop_pc, now, jumps, nextId,
                   stored, incidents, dispatched, stream_published,
                   processed, det_log, failed_write, failed_ids, last_check,
                   accepted, late_accepted, final_ids>>
    /\ UNCHANGED <<streamVars, ruleVars, alertVars, apiVars>>

(***************************************************************************)
(* stop(): clears _is_running, cancels the worker task (its local batch    *)
(* goes with it; a storage write it was awaiting may or may not have       *)
(* committed), drains the queue and hands what it held to one              *)
(* _write_batch call whose result is not looked at.                        *)
(***************************************************************************)
Stop ==
    /\ is_running
    /\ is_running' = FALSE
    /\ worker' = "dead"
    /\ batch' = <<>>
    /\ failed_write' = NoFail
    /\ IF call.who = "worker" /\ call.phase = "storage"
       THEN \E committed \in BOOLEAN :
               stored' = IF committed THEN stored \o IdSeq(call.items)
                         ELSE stored
       ELSE UNCHANGED stored
    /\ queue' = <<>>
    /\ final_ids' = Ids(queue)
    /\ IF queue # <<>>
       THEN /\ BeginWriteBatch("stop", queue)
            /\ stop_pc' = "write"
       ELSE /\ call' = NoCall
            /\ stop_pc' = "done"
            /\ UNCHANGED stream_published
    /\ UNCHANGED <<has_queue, last_flush, wake_at, pending, pending_stamp,
                   now, jumps, nextId, incidents, dispatched, processed,
                   det_log, failed_ids, last_check, accepted, late_accepted>>
    /\ UNCHANGED <<streamVars, ruleVars, alertVars, apiVars>>

(***************************************************************************)
(* The clock.  Steps without an await take no time: the clock does not     *)
(* pass an item the worker can take, the flush timer it waits for, the     *)
(* end of its sleep, a suspended put that can resume, or the per-item      *)
(* loop of _write_batch.  The clock is read relative to the worker's       *)
(* start, so it runs while the service does.                               *)
(***************************************************************************)
Tick ==
    /\ is_running
    /\ now < MaxNow
    /\ worker = "wait" => queue = <<>> /\ now - last_flush < FlushInterval
    /\ worker = "backoff" => now < wake_at
    /\ worker = "crashed" => now < wake_at
    /\ call.phase # "process"
    /\ pending # <<>> => Len(queue) = QueueMaxsize
    /\ now' = now + 1
    /\ UNCHANGED <<is_running, has_queue, queue, worker, batch, last_flush,
                   wake_at, call, pending, pending_stamp, stop_pc, jumps,
                   nextId, stored, incidents, dispatched, stream_published,
                   processed, det_log, failed_write, failed_ids, last_check,
                   accepted, late_accepted, final_ids>>
    /\ UNCHANGED <<streamVars, ruleVars, alertVars, apiVars>>

Next ==
    \/ Start
    \/ EnqueueCall
    \/ EnqueuePut
    \/ WorkerGet
    \/ WorkerTimeout
    \/ WorkerWake
    \/ WriteStorage
    \/ WriteProcessItem
    \/ Stop
    \/ Tick

Spec == Init /\ [][Next]_vars

(***************************************************************************)
(* Fault scenario: events enqueued one at a time while the service runs,   *)
(* among them an event whose processing raises after the storage write     *)
(* has committed.  The exception leaves _write_batch; in the worker it     *)
(* reaches the handler of _process_queue, which logs, sleeps 1 s and goes  *)
(* on with the loop, the batch and last_flush as they were.                *)
(***************************************************************************)
EnqueueEvent(kind) ==
    /\ has_queue
    /\ is_running
    /\ pending = <<>>
    /\ nextId <= MaxEvents
    /\ PutRun(<<[tenant |-> "t1", kind |-> kind, late |-> stop_pc # "none"]>>,
              now)
    /\ UNCHANGED <<is_running, has_queue, worker, batch, last_flush, wake_at,
                   call, stop_pc, now, jumps, stored, incidents, dispatched,
                   stream_published, processed, det_log, failed_write,
                   failed_ids, last_check, final_ids>>
    /\ UNCHANGED <<streamVars, ruleVars, alertVars, apiVars>>

\* the exception ends the worker task
AfterRaiseEscapes == "dead"

\* except Exception: the worker stays in its loop
AfterRaise == "crashed"

WriteProcessRaises ==
    /\ call.phase = "process"
    /\ Raises(call.items[call.idx])
    /\ processed' = [processed EXCEPT ![call.items[call.idx].id] = @ + 1]
    /\ call' = NoCall
    /\ IF call.who = "worker"
       THEN /\ worker' = AfterRaise
            /\ wake_at' = now + CrashSleep
            /\ UNCHANGED stop_pc
       ELSE /\ stop_pc' = IF call.who = "stop" THEN "raised" ELSE stop_pc
            /\ UNCHANGED <<worker, wake_at>>
    /\ UNCHANGED <<is_running, has_queue, queue, batch, last_flush, pending,
                   pending_stamp, now, jumps, nextId, stored, incidents,
                   dispatched, stream_published, det_log, failed_write,
                   failed_ids, last_check, accepted, late_accepted,
                   final_ids>>
    /\ UNCHANGED <<streamVars, ruleVars, alertVars, apiVars>>

\* the sleep(1) of the handler is over: next pass of while self._is_running
\* (followed up to MaxStored stored rows)
WorkerRecover ==
    /\ worker = "crashed"
    /\ is_running
    /\ Len(stored) < MaxStored
    /\ now >= wake_at
    /\ worker' = "wait"
    /\ UNCHANGED <<is_running, has_queue, queue, batch, last_flush, wake_at,
                   call, pending, pending_stamp, stop_pc, now, jumps, nextId,
                   stored, incidents, dispatched, stream_published,
                   processed, det_log, failed_write, failed_ids, last_check,
                   accepted, late_accepted, final_ids>>
    /\ UNCHANGED <<streamVars, ruleVars, alertVars, apiVars>>

\* the steps of the running pipeline on events whose processing raises
\* nothing
NextRunning ==
    \/ Start
    \/ EnqueueEvent(KindNoExec)
    \/ EnqueuePut
    \/ WorkerGet
    \/ WorkerTimeout
    \/ WorkerWake
    \/ WriteStorage
    \/ WriteProcessItem
    \/ Tick

NextFault ==
    \/ NextRunning
    \/ EnqueueEvent(PoisonKind)
    \/ WriteProcessRaises
    \/ WorkerRecover
    \/ Stop

SpecFault == Init /\ [][NextFault]_vars

\* a time of the past, one second later
Earlier(at) == IF at > 0 THEN at - 1 ELSE at

\* The clock without an end: as Tick up to FlushInterval; from then on the
\* clock reads FlushInterval and the two times the worker compares it with,
\* last_flush and wake_at, move one second into the past instead (a
\* last_flush of 0 is then FlushInterval or more ago).
ClockRuns ==
    /\ is_running
    /\ worker = "wait" => queue = <<>> /\ now - last_flush < FlushInterval
    /\ worker = "backoff" => now < wake_at
    /\ call.phase # "process"
    /\ pending # <<>> => Len(queue) = QueueMaxsize
    /\ IF now < FlushInterval
       THEN /\ now' = now + 1
            /\ UNCHANGED <<last_flush, wake_at>>
       ELSE /\ last_flush' = Earlier(last_flush)
            /\ wake_at' = Earlier(wake_at)
            /\ UNCHANGED now
    /\ UNCHANGED <<is_running, has_queue, queue, worker, batch, call, pending,
                   pending_stamp, stop_pc, jumps, nextId, stored, incidents,
                   dispatched, stream_published, processed, det_log,
                   failed_write, failed_ids, last_check, accepted,
                   late_accepted, final_ids>>
    /\ UNCHANGED <<streamVars, ruleVars, alertVars, apiVars>>

\* the storage write commits
StorageCommits == WriteStorage /\ stored' # stored

\* the event loop runs every task that is ready, the clock advances, and a
\* storage write that is tried again and again commits at some time
WorkerFairness ==
    /\ WF_vars(EnqueuePut)
    /\ WF_vars(WorkerGet)
    /\ WF_vars(WorkerTimeout)
    /\ WF_vars(WorkerWake)
    /\ WF_vars(WriteStorage)
    /\ WF_vars(WriteProcessItem)
    /\ WF_vars(ClockRuns)
    /\ SF_vars(StorageCommits)

NextLive ==
    \/ Start
    \/ EnqueueEvent(KindNoExec)
    \/ EnqueuePut
    \/ WorkerGet
    \/ WorkerTimeout
    \/ WorkerWake
    \/ WriteStorage
    \/ WriteProcessItem
    \/ ClockRuns

SpecLive == Init /\ [][NextLive]_vars /\ WorkerFairness

(***************************************************************************)
(* Incident scenario: _write_batch called directly with one-item batches,  *)
(* as test_ingestion_incident.py does, while the clock moves by half days. *)
(***************************************************************************)
DirectCall ==
    /\ call = NoCall
    /\ worker = "none"
    /\ nextId <= MaxDirectCalls
    /\ \E t \in Tenants, k \in DedupKinds :
        BeginWriteBatch("direct", <<[id |-> nextId, tenant |-> t, kind |-> k,
                                     ingested_at |-> NoStamp]>>)
    /\ nextId' = nextId + 1
    /\ UNCHANGED <<is_running, has_queue, queue, worker, batch, last_flush,
                   wake_at, pending, pending_stamp, stop_pc, now, jumps,
                   stored, incidents, dispatched, processed, det_log,
                   failed_write, failed_ids, last_check, accepted,
                   late_accepted, final_ids>>
    /\ UNCHANGED <<streamVars, ruleVars, alertVars, apiVars>>

ClockJump ==
    /\ jumps < MaxJumps
    /\ call = NoCall
    /\ jumps' = jumps + 1
    /\ now' = now + JumpSeconds
    /\ UNCHANGED <<is_running, has_queue, queue, worker, batch, last_flush,
                   wake_at, call, pending, pending_stamp, stop_pc, nextId,
                   stored, incidents, dispatched, stream_published,
                   processed, det_log, failed_write, failed_ids, last_check,
                   accepted, late_accepted, final_ids>>
    /\ UNCHANGED <<streamVars, ruleVars, alertVars, apiVars>>

NextDedup ==
    \/ DirectCall
    \/ WriteStorage
    \/ WriteProcessItem
    \/ ClockJump

SpecDedup == Init /\ [][NextDedup]_vars

(***************************************************************************)
(* Real-time fan-out.  A socket connects to /stream (manager.py:            *)
(* subscribe, publish_event, unsubscribe, a sender loop and a heartbeat    *)
(* loop per subscriber) or to /stream/ws (stream_manager.py:               *)
(* register_client, broadcast_event, remove_client, a sender loop per      *)
(* client; the handler sends the heartbeat).  publish_event,               *)
(* broadcast_event and remove_client contain no await and are one step.    *)
(***************************************************************************)
Without(f, k) == [x \in DOMAIN f \ {k} |-> f[x]]

With(f, k, v) == [x \in DOMAIN f \cup {k} |-> IF x = k THEN v ELSE f[x]]

\* no filter applied
PassesAll(filters, event) == TRUE

\* the filter checks of publish_event
Passes(filters, event) ==
    /\ filters.has_node => filters.node = event.node
    /\ filters.incident_only => event.incident_flag

Matches(conn_data, event) ==
    /\ conn_data.tenant_id = event.tenant_id
    /\ Passes(conn_data.filters, event)

\* a full queue keeps its items and the new event is not put
EnqueuedDropNewest(q, event) ==
    IF Len(q) >= SubscriberQueueMax THEN q ELSE Append(q, event)

\* queue.full() -> get_nowait(), then put_nowait(event)
Enqueued(q, event) ==
    IF Len(q) >= SubscriberQueueMax
    THEN Append(Tail(q), event)
    ELSE Append(q, event)

\* the task left running
CancelTaskSkipped(task) == task

\* task.cancel() on a sender loop, which is suspended in queue.get() or in
\* send_json(), or is the caller and returns next
CancelTask(task) == [pc |-> "done", item |-> NoEvent]

\* the tenant's whole list dropped
RemainingSocketsNone(sockets, ws) == <<>>

\* sockets.remove(websocket)
RemainingSockets(sockets, ws) == SelectSeq(sockets, LAMBDA x : x # ws)

InList(sockets, ws) == \E i \in 1..Len(sockets) : sockets[i] = ws

\* remove_client, lines 41-48: the socket leaves its tenant's list and a list
\* left empty is deleted
ClientsWithout(ws) ==
    LET found == {t \in DOMAIN clients : InList(clients[t], ws)}
    IN IF found = {}
       THEN clients
       ELSE LET t == CHOOSE x \in found : TRUE
                rest == RemainingSockets(clients[t], ws)
            IN IF rest = <<>>
               THEN Without(clients, t)
               ELSE [clients EXCEPT ![t] = rest]

\* manager.py unsubscribe(websocket)
Unsubscribe(ws) ==
    /\ active_connections' = Without(active_connections, ws)
    /\ sender' = IF ws \in DOMAIN active_connections
                 THEN [sender EXCEPT ![ws] = CancelTask(@)]
                 ELSE sender
    /\ unsub_calls' = [unsub_calls EXCEPT ![ws] = @ + 1]
    /\ since' = [since EXCEPT ![ws] = 0]
    /\ drained' = [drained EXCEPT ![ws] = FALSE]
    /\ UNCHANGED <<clients, client_queues, client_tasks>>

\* stream_manager.py remove_client(websocket)
RemoveClient(ws) ==
    /\ clients' = ClientsWithout(ws)
    /\ sender' = IF ws \in client_tasks
                 THEN [sender EXCEPT ![ws] = CancelTask(@)]
                 ELSE sender
    /\ client_tasks' = client_tasks \ {ws}
    /\ client_queues' = Without(client_queues, ws)
    /\ unsub_calls' = [unsub_calls EXCEPT ![ws] = @ + 1]
    /\ since' = [since EXCEPT ![ws] = 0]
    /\ drained' = [drained EXCEPT ![ws] = FALSE]
    /\ UNCHANGED active_connections

TearDown(ws) == IF conn[ws].gen = 1 THEN Unsubscribe(ws) ELSE RemoveClient(ws)

\* The two managers share no state: a run drives one of them.
OnlyGen(g) ==
    /\ \A s \in Sockets : conn[s].gen \in {0, g}
    /\ \A i \in 1..Len(published) : published[i].gen = g

\* subscribe(), up to its await of the "subscribed" frame
Subscribe(s) ==
    /\ conn[s].pc = "new"
    /\ OnlyGen(1)
    /\ \E c \in SubscriberChoices :
          active_connections' =
              With(active_connections, s,
                   [tenant_id |-> c[1], filters |-> c[2], queue |-> <<>>])
    /\ conn' = [conn EXCEPT ![s] = [gen |-> 1, pc |-> "handshake"]]
    /\ sender' = [sender EXCEPT ![s].pc = "get"]
    /\ since' = [since EXCEPT ![s] = Len(published)]
    /\ UNCHANGED <<clients, client_queues, client_tasks, heartbeat, published,
                   drained, unsub_calls>>
    /\ UNCHANGED <<pipelineVars, ruleVars, alertVars, apiVars>>

\* subscribe(), from the "subscribed" frame on: sent, the heartbeat loop is
\* started; not sent, the subscriber is unsubscribed
SubscribeAck(s) ==
    /\ conn[s].pc = "handshake"
    /\ conn' = [conn EXCEPT ![s].pc = "open"]
    /\ \E sent \in BOOLEAN :
          IF sent
          THEN /\ heartbeat' =
                     [heartbeat EXCEPT ![s] =
                         IF s \in DOMAIN active_connections
                         THEN "sleep" ELSE "done"]
               /\ UNCHANGED <<active_connections, clients, client_queues,
                              client_tasks, sender, unsub_calls, since,
                              drained>>
          ELSE /\ Unsubscribe(s)
               /\ UNCHANGED heartbeat
    /\ UNCHANGED published
    /\ UNCHANGED <<pipelineVars, ruleVars, alertVars, apiVars>>

\* register_client(tenant_id, websocket), after websocket.accept()
RegisterClient(s) ==
    /\ conn[s].pc = "new"
    /\ OnlyGen(2)
    /\ \E t \in Tenants :
          clients' = With(clients, t,
                          IF t \in DOMAIN clients
                          THEN Append(clients[t], s) ELSE <<s>>)
    /\ client_queues' = With(client_queues, s, <<>>)
    /\ client_tasks' = client_tasks \cup {s}
    /\ conn' = [conn EXCEPT ![s] = [gen |-> 2, pc |-> "open"]]
    /\ sender' = [sender EXCEPT ![s].pc = "get"]
    /\ since' = [since EXCEPT ![s] = Len(published)]
    /\ UNCHANGED <<active_connections, heartbeat, published, drained,
                   unsub_calls>>
    /\ UNCHANGED <<pipelineVars, ruleVars, alertVars, apiVars>>

\* publish_event(event)
PublishEvent ==
    /\ Len(published) < MaxPublishes
    /\ OnlyGen(1)
    /\ \E c \in PublishChoices :
          LET event == StreamEvent(1, Len(published) + 1, c[1], c[2], c[3])
          IN /\ active_connections' =
                    [ws \in DOMAIN active_connections |->
                        IF Matches(active_connections[ws], event)
                        THEN [active_connections[ws] EXCEPT
                                 !.queue = Enqueued(@, event)]
                        ELSE active_connections[ws]]
             /\ published' = Append(published, event)
    /\ UNCHANGED <<conn, clients, client_queues, client_tasks, sender,
                   heartbeat, since, drained, unsub_calls>>
    /\ UNCHANGED <<pipelineVars, ruleVars, alertVars, apiVars>>

\* broadcast_event(tenant_id, event)
BroadcastEvent ==
    /\ Len(published) < MaxPublishes
    /\ OnlyGen(2)
    /\ \E t \in Tenants :
          LET event == StreamEvent(2, Len(published) + 1, t, "", FALSE)
              sockets == IF t \in DOMAIN clients THEN clients[t] ELSE <<>>
          IN /\ client_queues' =
                    [ws \in DOMAIN client_queues |->
                        IF InList(sockets, ws)
                        THEN Enqueued(client_queues[ws], event)
                        ELSE client_queues[ws]]
             /\ published' = Append(published, event)
    /\ UNCHANGED <<conn, active_connections, clients, client_tasks, sender,
                   heartbeat, since, drained, unsub_calls>>
    /\ UNCHANGED <<pipelineVars, ruleVars, alertVars, apiVars>>

\* the subscriber's queue, while the manager holds it
Registered(s) ==
    IF conn[s].gen = 1 THEN s \in DOMAIN active_connections
    ELSE s \in DOMAIN client_queues

QueueOf(s) ==
    IF conn[s].gen = 1 THEN active_connections[s].queue ELSE client_queues[s]

\* the sender loop takes the oldest item: queue.get() returns
SenderGet(s) ==
    /\ sender[s].pc = "get"
    /\ Registered(s)
    /\ QueueOf(s) # <<>>
    /\ sender' = [sender EXCEPT ![s] = [pc |-> "send", item |-> Head(QueueOf(s))]]
    /\ IF conn[s].gen = 1
       THEN /\ active_connections' =
                   [active_connections EXCEPT ![s].queue = Tail(@)]
            /\ UNCHANGED client_queues
       ELSE /\ client_queues' = [client_queues EXCEPT ![s] = Tail(@)]
            /\ UNCHANGED active_connections
    /\ drained' = [drained EXCEPT ![s] = TRUE]
    /\ UNCHANGED <<conn, clients, client_tasks, heartbeat, published, since,
                   unsub_calls>>
    /\ UNCHANGED <<pipelineVars, ruleVars, alertVars, apiVars>>

\* websocket.send_json(item) returns: the loop goes back to queue.get()
SenderSendOk(s) ==
    /\ sender[s].pc = "send"
    /\ sender' = [sender EXCEPT ![s] = [pc |-> "get", item |-> NoEvent]]
    /\ UNCHANGED <<conn, active_connections, clients, client_queues,
                   client_tasks, heartbeat, published, since, drained,
                   unsub_calls>>
    /\ UNCHANGED <<pipelineVars, ruleVars, alertVars, apiVars>>

\* websocket.send_json(item) raises: the loop unsubscribes its socket
SenderSendFails(s) ==
    /\ sender[s].pc = "send"
    /\ TearDown(s)
    /\ UNCHANGED <<conn, heartbeat, published>>
    /\ UNCHANGED <<pipelineVars, ruleVars, alertVars, apiVars>>

\* the heartbeat cannot be sent.  /stream: _heartbeat_loop wakes, finds its
\* socket subscribed, the ping raises.  /stream/ws: the handler's heartbeat
\* raises and the handler ends.
HeartbeatFails(s) ==
    /\ \/ /\ conn[s].gen = 1
          /\ heartbeat[s] = "sleep"
          /\ s \in DOMAIN active_connections
          /\ heartbeat' = [heartbeat EXCEPT ![s] = "done"]
          /\ UNCHANGED conn
       \/ /\ conn[s].gen = 2
          /\ conn[s].pc = "open"
          /\ conn' = [conn EXCEPT ![s].pc = "closed"]
          /\ UNCHANGED heartbeat
    /\ TearDown(s)
    /\ UNCHANGED published
    /\ UNCHANGED <<pipelineVars, ruleVars, alertVars, apiVars>>

\* _heartbeat_loop wakes and finds its socket unsubscribed
HeartbeatExit(s) ==
    /\ heartbeat[s] = "sleep"
    /\ s \notin DOMAIN active_connections
    /\ heartbeat' = [heartbeat EXCEPT ![s] = "done"]
    /\ UNCHANGED <<conn, active_connections, clients, client_queues,
                   client_tasks, sender, published, since, drained,
                   unsub_calls>>
    /\ UNCHANGED <<pipelineVars, ruleVars, alertVars, apiVars>>

\* the client goes away: the handler's receive_text() raises and the handler
\* unsubscribes its socket
Disconnect(s) ==
    /\ conn[s].pc = "open"
    /\ conn' = [conn EXCEPT ![s].pc = "closed"]
    /\ TearDown(s)
    /\ UNCHANGED <<heartbeat, published>>
    /\ UNCHANGED <<pipelineVars, ruleVars, alertVars, apiVars>>

NextStream ==
    \/ PublishEvent
    \/ BroadcastEvent
    \/ \E s \in Sockets :
          \/ Subscribe(s)
          \/ SubscribeAck(s)
          \/ RegisterClient(s)
          \/ SenderGet(s)
          \/ SenderSendOk(s)
          \/ SenderSendFails(s)
          \/ HeartbeatFails(s)
          \/ HeartbeatExit(s)
          \/ Disconnect(s)

SpecStream == Init /\ [][NextStream]_vars

(***************************************************************************)
(* RuleStore and RuleEngine.  get_rules_for_tenant: cache check, then the   *)
(* lock, the second check and the fetch, which reads the table at some     *)
(* point of its await and returns later.  add_rule / delete_rule: commit,  *)
(* then the eviction under the lock.  An uncontended asyncio.Lock is taken *)
(* without a suspension; a contended one is handed over in arrival order.  *)
(***************************************************************************)
\* lines 30-31 (and 36-37), with the time the call read on entry
CacheValid(at) ==
    /\ last_refresh # NoRefresh
    /\ at - last_refresh < CacheTtl

\* no second check once the lock is held
RecheckSkipped(at) == FALSE

\* lines 36-38: the check repeated under the lock
Recheck(at) == CacheValid(at)

\* the select of _fetch_db_rules_for_tenant: the enabled rows by priority
\* descending, rows of equal priority in any order
FetchOrders ==
    LET rows == {r \in rule_db : RuleCatalog[r].enabled}
        n == Cardinality(rows)
    IN {s \in [1..n -> rows] :
          /\ \A i, j \in 1..n : i # j => s[i] # s[j]
          /\ \A i, j \in 1..n :
                i < j => RuleCatalog[s[i]].priority >= RuleCatalog[s[j]].priority}

\* sorted by priority ascending
SortedRulesAscending(rules) ==
    LET n == Len(rules)
        perm == CHOOSE p \in [1..n -> 1..n] :
                   /\ \A i, j \in 1..n : i # j => p[i] # p[j]
                   /\ \A i, j \in 1..n :
                         i < j =>
                            \/ RuleCatalog[rules[p[i]]].priority
                                  < RuleCatalog[rules[p[j]]].priority
                            \/ /\ RuleCatalog[rules[p[i]]].priority
                                     = RuleCatalog[rules[p[j]]].priority
                               /\ p[i] < p[j]
    IN [i \in 1..n |-> rules[perm[i]]]

\* sorted(rules, key=lambda r: r.priority, reverse=True): by priority
\* descending, rules of equal priority in the order of the list
SortedRules(rules) ==
    LET n == Len(rules)
        perm == CHOOSE p \in [1..n -> 1..n] :
                   /\ \A i, j \in 1..n : i # j => p[i] # p[j]
                   /\ \A i, j \in 1..n :
                         i < j =>
                            \/ RuleCatalog[rules[p[i]]].priority
                                  > RuleCatalog[rules[p[j]]].priority
                            \/ /\ RuleCatalog[rules[p[i]]].priority
                                     = RuleCatalog[rules[p[j]]].priority
                               /\ p[i] < p[j]
    IN [i \in 1..n |-> rules[perm[i]]]

\* _evaluate_condition for execution_latency
Triggered(rule, event) == event.duration > RuleCatalog[rule].threshold

\* evaluate_event, lines 29-46, on the list the store returned
EvaluateEvent(rules, event) ==
    LET sorted == SelectSeq(SortedRules(rules),
                            LAMBDA r : RuleCatalog[r].enabled)
        hits == {i \in 1..Len(sorted) : Triggered(sorted[i], event)}
        first == IF hits = {} THEN Len(sorted)
                 ELSE CHOOSE i \in hits : \A j \in hits : i <= j
    IN [rules |-> rules,
        evaluated |-> SubSeq(sorted, 1, first),
        result |-> IF hits = {} THEN 0 ELSE sorted[first]]

\* the call of c returns value (a cache entry); the engine then evaluates
GetReturn(c, call_state, value, fetched, hit) ==
    /\ last_get' = [who |-> c, need |-> call_state.need, ver |-> value.ver,
                    ok |-> value.ok, fetched |-> fetched, hit |-> hit,
                    waited |-> call_state.waited]
    /\ eval_log' = IF c = "engine" /\ value.rules # <<>>
                   THEN EvaluateEvent(value.rules, RuleEvent)
                   ELSE eval_log

\* get_rules_for_tenant up to its first suspension
GetCall(c) ==
    /\ getter[c].pc = "idle"
    /\ get_calls < MaxGetCalls
    /\ get_calls' = get_calls + 1
    /\ LET entry == [IdleGetter EXCEPT !.at = rule_now, !.need = acked_ver]
       IN IF CacheValid(rule_now)
          THEN /\ GetReturn(c, entry, rule_cache, FALSE, TRUE)
               /\ UNCHANGED <<getter, rule_lock>>
          ELSE /\ rule_lock' = Append(rule_lock, c)
               /\ getter' = [getter EXCEPT ![c] =
                                IF rule_lock = <<>>
                                THEN [entry EXCEPT !.pc = "fetch"]
                                ELSE [entry EXCEPT !.pc = "lockwait",
                                                   !.waited = TRUE]]
               /\ UNCHANGED <<last_get, eval_log>>
    /\ UNCHANGED <<rule_db, db_ver, acked_ver, rule_cache, last_refresh,
                   admin, rule_ops, rule_now>>
    /\ UNCHANGED <<pipelineVars, streamVars, alertVars, apiVars>>

\* the lock is handed to the waiting call: second check, then the fetch
GetGranted(c) ==
    /\ getter[c].pc = "lockwait"
    /\ Head(rule_lock) = c
    /\ IF Recheck(getter[c].at)
       THEN /\ GetReturn(c, getter[c], rule_cache, FALSE, FALSE)
            /\ rule_lock' = Tail(rule_lock)
            /\ getter' = [getter EXCEPT ![c] = IdleGetter]
       ELSE /\ getter' = [getter EXCEPT ![c].pc = "fetch"]
            /\ UNCHANGED <<rule_lock, last_get, eval_log>>
    /\ UNCHANGED <<rule_db, db_ver, acked_ver, rule_cache, last_refresh,
                   admin, rule_ops, get_calls, rule_now>>
    /\ UNCHANGED <<pipelineVars, streamVars, alertVars, apiVars>>

\* _fetch_db_rules_for_tenant reads the table, or fails and yields []
FetchRead(c) ==
    /\ getter[c].pc = "fetch"
    /\ \E answered \in BOOLEAN :
          IF answered
          THEN \E rows \in FetchOrders :
                  getter' = [getter EXCEPT ![c].pc = "fetched",
                                           ![c].rules = rows,
                                           ![c].ver = db_ver]
          ELSE getter' = [getter EXCEPT ![c].pc = "fetched",
                                        ![c].ver = db_ver,
                                        ![c].ok = FALSE]
    /\ UNCHANGED <<rule_db, db_ver, acked_ver, rule_cache, last_refresh,
                   rule_lock, admin, rule_ops, get_calls, rule_now, last_get,
                   eval_log>>
    /\ UNCHANGED <<pipelineVars, streamVars, alertVars, apiVars>>

\* lines 40-43: the fetch returns, the entry is stored, the lock released
FetchReturn(c) ==
    /\ getter[c].pc = "fetched"
    /\ LET value == [rules |-> getter[c].rules, ver |-> getter[c].ver,
                     ok |-> getter[c].ok]
       IN /\ rule_cache' = value
          /\ GetReturn(c, getter[c], value, TRUE, FALSE)
    /\ last_refresh' = rule_now
    /\ rule_lock' = Tail(rule_lock)
    /\ getter' = [x \in Getters |->
                     IF x = c THEN IdleGetter
                     ELSE IF getter[x].pc = "lockwait"
                     THEN [getter[x] EXCEPT !.served = TRUE]
                     ELSE getter[x]]
    /\ UNCHANGED <<rule_db, db_ver, acked_ver, admin, rule_ops, get_calls,
                   rule_now>>
    /\ UNCHANGED <<pipelineVars, streamVars, alertVars, apiVars>>

\* the 50 ms wait_for around evaluate_event expires: the call is cancelled
\* where it is suspended and leaves the lock or its place in the line
GetCancel ==
    /\ getter["engine"].pc # "idle"
    /\ rule_lock' = SelectSeq(rule_lock, LAMBDA x : x # "engine")
    /\ getter' = [getter EXCEPT !["engine"] = IdleGetter]
    /\ UNCHANGED <<rule_db, db_ver, acked_ver, rule_cache, last_refresh,
                   admin, rule_ops, get_calls, rule_now, last_get, eval_log>>
    /\ UNCHANGED <<pipelineVars, streamVars, alertVars, apiVars>>

\* add_rule / delete_rule: session.commit() has returned
AdminCommit ==
    /\ admin = "idle"
    /\ rule_ops < MaxRuleOps
    /\ rule_ops' = rule_ops + 1
    /\ db_ver' = db_ver + 1
    /\ \/ \E r \in DOMAIN RuleCatalog \ rule_db :
             /\ rule_db' = rule_db \cup {r}
             /\ admin' = "added"
       \/ \E r \in rule_db :
             /\ rule_db' = rule_db \ {r}
             /\ admin' = "deleted"
    /\ UNCHANGED <<acked_ver, rule_cache, last_refresh, rule_lock, getter,
                   get_calls, rule_now, last_get, eval_log>>
    /\ UNCHANGED <<pipelineVars, streamVars, alertVars, apiVars>>

\* add_rule: session.refresh(new_rule) raises after the commit; the call
\* returns None and the entry is not evicted
AdminRefreshFails ==
    /\ admin = "added"
    /\ admin' = "idle"
    /\ UNCHANGED <<rule_db, db_ver, acked_ver, rule_cache, last_refresh,
                   rule_lock, getter, rule_ops, get_calls, rule_now, last_get,
                   eval_log>>
    /\ UNCHANGED <<pipelineVars, streamVars, alertVars, apiVars>>

\* the entry evicted whoever holds the lock
MayEvictAlways(lock) == TRUE

\* async with self._lock: entered at once when nobody holds the lock
MayEvict(lock) == lock = <<>>

\* self._last_refresh.pop(tenant_id, None); the call returns its result
Evict ==
    /\ last_refresh' = NoRefresh
    /\ acked_ver' = db_ver
    /\ admin' = "idle"

\* add_rule lines 100-102, delete_rule lines 135-137
AdminEvict ==
    /\ admin \in {"added", "deleted"}
    /\ IF MayEvict(rule_lock)
       THEN /\ Evict
            /\ getter' = [x \in Getters |-> [getter[x] EXCEPT !.served = FALSE]]
            /\ UNCHANGED rule_lock
       ELSE /\ rule_lock' = Append(rule_lock, "admin")
            /\ admin' = "lockwait"
            /\ UNCHANGED <<last_refresh, acked_ver, getter>>
    /\ UNCHANGED <<rule_db, db_ver, rule_cache, rule_ops, get_calls, rule_now,
                   last_get, eval_log>>
    /\ UNCHANGED <<pipelineVars, streamVars, alertVars, apiVars>>

\* the lock is handed to the waiting add_rule / delete_rule
AdminGranted ==
    /\ admin = "lockwait"
    /\ Head(rule_lock) = "admin"
    /\ Evict
    /\ rule_lock' = Tail(rule_lock)
    /\ getter' = [x \in Getters |-> [getter[x] EXCEPT !.served = FALSE]]
    /\ UNCHANGED <<rule_db, db_ver, rule_cache, rule_ops, get_calls, rule_now,
                   last_get, eval_log>>
    /\ UNCHANGED <<pipelineVars, streamVars, alertVars, apiVars>>

RuleTick ==
    /\ rule_now < MaxRuleNow
    /\ rule_now' = rule_now + 1
    /\ UNCHANGED <<rule_db, db_ver, acked_ver, rule_cache, last_refresh,
                   rule_lock, getter, admin, rule_ops, get_calls, last_get,
                   eval_log>>
    /\ UNCHANGED <<pipelineVars, streamVars, alertVars, apiVars>>

NextRules ==
    \/ \E c \in Getters :
          \/ GetCall(c)
          \/ GetGranted(c)
          \/ FetchRead(c)
          \/ FetchReturn(c)
    \/ GetCancel
    \/ AdminCommit
    \/ AdminRefreshFails
    \/ AdminEvict
    \/ AdminGranted
    \/ RuleTick

SpecRules == Init /\ [][NextRules]_vars

(***************************************************************************)
(* The alert dispatcher.  process_incident creates the dispatch task and   *)
(* returns; the task looks the tenant's alert rules up and creates one     *)
(* _send_webhook task per rule that fires; each of those posts up to       *)
(* max_retries times.                                                      *)
(***************************************************************************)
\* process_incident awaits the task it created
WaitsForTask(task) == task

\* process_incident: create_task only, nothing is awaited
WaitsFor(task) == 0

\* the task the caller waits for, if any, has ended
CallerFree ==
    IF alert_worker.wait = 0 THEN TRUE
    ELSE alert_tasks[alert_worker.wait].pc = "done"

\* _write_batch lines 304-316: await process_incident(payload), once for
\* each incident row inserted
ProcessIncident(incident) ==
    /\ alert_worker.handed < MaxIncidents
    /\ \A t \in DOMAIN alert_tasks : alert_tasks[t].incident.id # incident.id
    /\ CallerFree
    /\ alert_tasks' = Append(alert_tasks,
                             [incident |-> incident, pc |-> "created",
                              lookup |-> "none", used_mock |-> FALSE])
    /\ alert_worker' = [handed |-> alert_worker.handed + 1,
                        wait |-> WaitsFor(Len(alert_tasks) + 1)]
    /\ UNCHANGED <<alert_rules, deliveries>>
    /\ UNCHANGED <<pipelineVars, streamVars, ruleVars, apiVars>>

\* POST /alerts (create_alert_rule): a row is added to alert_rules
CreateAlertRule ==
    /\ \E r \in (DOMAIN AlertRuleCatalog) \ alert_rules :
          alert_rules' = alert_rules \cup {r}
    /\ UNCHANGED <<alert_worker, alert_tasks, deliveries>>
    /\ UNCHANGED <<pipelineVars, streamVars, ruleVars, apiVars>>

\* get_alert_rules_for_tenant: the tenant's rows, [] when the lookup failed
GetAlertRulesForTenant(tenant_id, outcome) ==
    IF outcome = "answered"
    THEN SelectSeq(AlertRuleCatalog,
                   LAMBDA r : r.id \in alert_rules /\ r.tenant_id = tenant_id)
    ELSE <<>>

\* lines 48-55: the simulated rule of the dev tenant
WithMockRule(rules, tenant_id) ==
    IF rules = <<>> /\ tenant_id = DevTenant THEN <<MockRule>> ELSE rules

\* lines 57-60: the rule fires for the incident
RuleFires(rule, incident) ==
    /\ rule.failure_type = incident.failure_type
    /\ rule.node_name = NoNode \/ rule.node_name = incident.node_name
    /\ rule.webhook_url # ""

\* _evaluate_and_fire_alerts from the lookup to its end; an exception raised
\* inside is caught at line 74 and starts no delivery
EvaluateAndFireAlerts(t, outcome) ==
    /\ alert_tasks[t].pc = "created"
    /\ LET incident == alert_tasks[t].incident
           found == GetAlertRulesForTenant(incident.tenant_id, outcome)
           rules == WithMockRule(found, incident.tenant_id)
           fired == IF outcome = "raised" THEN <<>>
                    ELSE SelectSeq(rules, LAMBDA r : RuleFires(r, incident))
       IN /\ deliveries' = deliveries \o
                [i \in 1..Len(fired) |->
                    [task |-> t, rule |-> fired[i].id,
                     url |-> fired[i].webhook_url, attempts |-> 0,
                     pc |-> "post"]]
          /\ alert_tasks' = [alert_tasks EXCEPT
                                ![t].pc = "done",
                                ![t].lookup = outcome,
                                ![t].used_mock = (outcome # "raised"
                                                  /\ rules # found)]
    /\ UNCHANGED <<alert_rules, alert_worker>>
    /\ UNCHANGED <<pipelineVars, streamVars, ruleVars, apiVars>>

\* one attempt more than max_retries
MayRetryOnceMore(attempts) == attempts <= MaxRetries

\* for attempt in range(max_retries): another attempt follows
MayRetry(attempts) == attempts < MaxRetries

\* _send_webhook: one POST attempt ends (the backoff sleep after a failed
\* attempt belongs to the step)
PostReturns(d, outcome) ==
    /\ deliveries[d].pc = "post"
    /\ deliveries' = [deliveries EXCEPT
                         ![d].attempts = @ + 1,
                         ![d].pc = IF outcome = "2xx" THEN "ok"
                                   ELSE IF MayRetry(deliveries[d].attempts + 1)
                                   THEN "post"
                                   ELSE "failed"]
    /\ UNCHANGED <<alert_rules, alert_worker, alert_tasks>>
    /\ UNCHANGED <<pipelineVars, streamVars, ruleVars, apiVars>>

NextAlert ==
    \/ \E incident \in IncidentChoices : ProcessIncident(incident)
    \/ CreateAlertRule
    \/ \E t \in DOMAIN alert_tasks, outcome \in LookupOutcomes :
          EvaluateAndFireAlerts(t, outcome)
    \/ \E d \in DOMAIN deliveries, outcome \in PostOutcomes :
          PostReturns(d, outcome)

SpecAlert == Init /\ [][NextAlert]_vars

(***************************************************************************)
(* QueryEngine: the four searches over _execute_with_safeguards            *)
(***************************************************************************)
\* the limit handed to the statement as requested
ActualLimitUncapped(limit) == limit

\* actual_limit = min(limit, self.max_limit)
ActualLimit(limit) == Min(limit, MaxLimit)

\* _execute_with_safeguards: the rows of the limited statement and
\* partial = FALSE, or no rows and partial = TRUE after a timeout or an error
ExecuteWithSafeguards(rows, limit, storage) ==
    IF storage = "ok"
    THEN [results |-> SubSeq(rows, 1, Min(ActualLimit(limit), Len(rows))),
          partial |-> FALSE]
    ELSE [results |-> <<>>, partial |-> TRUE]

\* the events the statement of search_events matches
MatchingEvents(node_name) ==
    SelectSeq(EventRows,
              LAMBDA nodes : node_name = ""
                             \/ \E i \in 1..Len(nodes) : nodes[i] = node_name)

RECURSIVE Flatten(_)
Flatten(lists) ==
    IF lists = <<>> THEN <<>> ELSE Head(lists) \o Flatten(Tail(lists))

\* the loops of search_nodes over the nodes of the fetched events
RECURSIVE ExtractNodes(_, _, _, _)
ExtractNodes(nodes, node_name, cap, extracted) ==
    IF nodes = <<>> THEN extracted
    ELSE IF node_name # "" /\ Head(nodes) # node_name
    THEN ExtractNodes(Tail(nodes), node_name, cap, extracted)
    ELSE IF Len(extracted) + 1 >= cap THEN Append(extracted, Head(nodes))
    ELSE ExtractNodes(Tail(nodes), node_name, cap,
                      Append(extracted, Head(nodes)))

\* search_events / search_incidents / search_nodes / search_clusters.
\* search_clusters reads query.time_range, which MultiResourceQueryRequest
\* does not have, before it builds the statement: AttributeError
Search(kind, limit, node_name, storage) ==
    /\ LET rows == IF kind = "incidents" THEN EventRows
                   ELSE MatchingEvents(IF kind = "clusters" THEN ""
                                       ELSE node_name)
           fetched == ExecuteWithSafeguards(rows, limit, storage)
           data == IF kind = "nodes"
                   THEN ExtractNodes(Flatten(fetched.results), node_name,
                                     ActualLimit(limit), <<>>)
                   ELSE fetched.results
       IN query_log' =
             IF kind = "clusters"
             THEN [kind |-> kind, limit |-> limit, node_name |-> node_name,
                   storage |-> storage, raised |-> TRUE, data |-> <<>>,
                   partial |-> FALSE]
             ELSE [kind |-> kind, limit |-> limit, node_name |-> node_name,
                   storage |-> storage, raised |-> FALSE, data |-> data,
                   partial |-> fetched.partial]
    /\ UNCHANGED <<detect_log, series_log, pct_log, db_status, ingest_req,
                   ingest_log>>
    /\ UNCHANGED coreVars

NextQuery ==
    \E kind \in SearchKinds, limit \in RequestedLimits,
       node_name \in NodeFilters, storage \in StorageStates :
          Search(kind, limit, node_name, storage)

SpecQuery == Init /\ [][NextQuery]_vars

(***************************************************************************)
(* detect_execution_failure                                                *)
(***************************************************************************)
\* the node list the detector scans: graph["nodes"] when graph is a mapping
\* that has "nodes", else execution.get("nodes", [])
NodesOf(execution) ==
    IF execution.graph = "nodes" THEN execution.graph_nodes
    ELSE IF execution.has_nodes THEN execution.nodes
    ELSE ListOf(<<>>)

\* one pass of the loop body without the two isinstance tests: node.get of a
\* node that is not a mapping raises
NodeVerdictUnguarded(shape) ==
    IF shape \in {"notdict", "meta_notdict"} THEN "raise"
    ELSE IF shape \in Markers THEN "hit"
    ELSE "miss"

\* one pass of the loop body: continue for a node or a metadata that is not
\* a mapping, else the test of the three markers on str(metadata).lower()
\* (a node without metadata has metadata {})
NodeVerdict(shape) ==
    IF shape \in {"notdict", "meta_notdict"} THEN "skip"
    ELSE IF shape \in Markers THEN "hit"
    ELSE "miss"

RECURSIVE ScanNodes(_, _)
ScanNodes(items, i) ==
    IF i > Len(items) THEN NoDetection
    ELSE LET verdict == NodeVerdict(items[i])
         IN IF verdict = "raise"
            THEN [NoDetection EXCEPT !.raised = TRUE]
            ELSE IF verdict = "hit"
            THEN [found |-> TRUE, raised |-> FALSE,
                  failure_type |-> "runtime_error", node |-> i,
                  shape |-> items[i]]
            ELSE ScanNodes(items, i + 1)

DetectExecutionFailure(execution) ==
    IF ~execution.is_dict THEN NoDetection
    ELSE IF ~NodesOf(execution).is_list THEN NoDetection
    ELSE ScanNodes(NodesOf(execution).items, 1)

DetectCall(execution) ==
    /\ detect_log' = [payload |-> execution,
                      result |-> DetectExecutionFailure(execution)]
    /\ UNCHANGED <<query_log, series_log, pct_log, db_status, ingest_req,
                   ingest_log>>
    /\ UNCHANGED coreVars

NextDetect == \E execution \in Payloads : DetectCall(execution)

SpecDetect == Init /\ [][NextDetect]_vars

(***************************************************************************)
(* aggregate_timeseries                                                    *)
(***************************************************************************)
\* the quotient rounded toward zero, times the interval
BucketIdxTruncated(ts, interval) ==
    IF ts >= 0 THEN (ts \div interval) * interval
    ELSE -(((-ts) \div interval) * interval)

\* bucket_idx = int(ts // interval_seconds) * interval_seconds
BucketIdx(ts, interval) == (ts \div interval) * interval

\* round(a / b, 0) for a >= 0 and b > 0
RoundDiv(a, b) == (2 * a + b) \div (2 * b)

\* round(errors / cnt * 100.0, 2), in hundredths of a per cent
ErrorRate100(errors, cnt) ==
    IF cnt > 0 THEN RoundDiv(errors * 10000, cnt) ELSE 0

\* the aggregation begins: no bucket yet
AggregateCall(interval, metric) ==
    /\ series_log.pc \in {"idle", "done", "storage_error", "field_error"}
    /\ series_log' = [pc |-> "stream", interval |-> interval,
                      metric |-> metric, events |-> <<>>,
                      buckets |-> <<>>, series |-> <<>>]
    /\ UNCHANGED <<query_log, detect_log, pct_log, db_status, ingest_req,
                   ingest_log>>
    /\ UNCHANGED coreVars

\* one pass of the loop over execution_stream, whose rows come ordered by
\* timestamp ascending
StreamRow(ts, failed) ==
    /\ series_log.pc = "stream"
    /\ Len(series_log.events) < MaxStream
    /\ \A i \in 1..Len(series_log.events) : series_log.events[i].ts <= ts
    /\ LET idx == BucketIdx(ts, series_log.interval)
           buckets == series_log.buckets
           b == IF idx \in DOMAIN buckets THEN buckets[idx]
                ELSE [count |-> 0, errors |-> 0]
           updated == [count |-> b.count + 1,
                       errors |-> b.errors + (IF failed THEN 1 ELSE 0)]
       IN series_log' =
             [series_log EXCEPT
                 !.events = Append(@, [ts |-> ts, failed |-> failed]),
                 !.buckets = (idx :> updated) @@ buckets]
    /\ UNCHANGED <<query_log, detect_log, pct_log, db_status, ingest_req,
                   ingest_log>>
    /\ UNCHANGED coreVars

\* for _, b in sorted(buckets.items())
RECURSIVE SortedBuckets(_, _, _)
SortedBuckets(buckets, keys, metric) ==
    IF keys = {} THEN <<>>
    ELSE LET k == CHOOSE x \in keys : \A y \in keys : x <= y
             b == buckets[k]
             rate == ErrorRate100(b.errors, b.count)
         IN <<[start |-> k, count |-> b.count, errors |-> b.errors,
               error_rate100 |-> rate,
               value |-> IF metric = "error_rate" THEN rate
                         ELSE b.count]>>
            \o SortedBuckets(buckets, keys \ {k}, metric)

\* the stream ends: the series is built and returned
Materialize ==
    /\ series_log.pc = "stream"
    /\ series_log' =
          [series_log EXCEPT
              !.pc = "done",
              !.series = SortedBuckets(series_log.buckets,
                                       DOMAIN series_log.buckets,
                                       series_log.metric)]
    /\ UNCHANGED <<query_log, detect_log, pct_log, db_status, ingest_req,
                   ingest_log>>
    /\ UNCHANGED coreVars

\* session.stream(...) or the fetch of the next rows raises: nothing in
\* aggregate_timeseries catches it, the exception leaves the function and
\* get_timeseries_metrics answers it with HTTPException(500)
StreamRaises ==
    /\ series_log.pc = "stream"
    /\ series_log' = [series_log EXCEPT !.pc = "storage_error"]
    /\ UNCHANGED <<query_log, detect_log, pct_log, db_status, ingest_req,
                   ingest_log>>
    /\ UNCHANGED coreVars

\* storage does not answer: the await of session.stream(...) or of the next
\* rows has no timeout around it and does not return
StreamSilent ==
    /\ series_log.pc = "stream"
    /\ series_log' = [series_log EXCEPT !.pc = "no_answer"]
    /\ UNCHANGED <<query_log, detect_log, pct_log, db_status, ingest_req,
                   ingest_log>>
    /\ UNCHANGED coreVars

\* lines 100-102 on a row whose payload has "metrics" that is not a mapping
\* (.get is missing: AttributeError) or a duration_ms float() refuses
\* (ValueError, TypeError); a status of another type only fails the
\* comparison with "FAILED"
FieldRaises(shape) ==
    shape \in {"metrics_not_mapping", "duration_not_numeric"}

\* one pass of the loop on a row with a malformed aggregation field
StreamMalformedRow(ts, shape) ==
    IF FieldRaises(shape)
    THEN /\ series_log.pc = "stream"
         /\ Len(series_log.events) < MaxStream
         /\ \A i \in 1..Len(series_log.events) : series_log.events[i].ts <= ts
         /\ series_log' = [series_log EXCEPT !.pc = "field_error"]
         /\ UNCHANGED <<query_log, detect_log, pct_log, db_status, ingest_req,
                        ingest_log>>
         /\ UNCHANGED coreVars
    ELSE StreamRow(ts, FALSE)

NextSeries ==
    \/ \E interval \in Intervals, metric \in Metrics :
          AggregateCall(interval, metric)
    \/ \E ts \in StreamTimes, failed \in BOOLEAN : StreamRow(ts, failed)
    \/ Materialize
    \/ StreamRaises
    \/ StreamSilent
    \/ \E ts \in StreamTimes, shape \in MalformedShapes :
          StreamMalformedRow(ts, shape)

SpecSeries == Init /\ [][NextSeries]_vars

(***************************************************************************)
(* _compute_percentile, with values in hundredths                          *)
(***************************************************************************)
\* the list left in the order it was given
Unsorted(data) == data

RECURSIVE InsertSorted(_, _)
InsertSorted(x, sorted) ==
    IF sorted = <<>> THEN <<x>>
    ELSE IF x <= Head(sorted) THEN <<x>> \o sorted
    ELSE <<Head(sorted)>> \o InsertSorted(x, Tail(sorted))

\* data.sort()
RECURSIVE Sort(_)
Sort(data) ==
    IF data = <<>> THEN <<>> ELSE InsertSorted(Head(data), Sort(Tail(data)))

\* k = (len(data) - 1) * (percentile / 100.0), f = floor(k), c = ceil(k):
\* data[int(k)] when f = c, else d0 + (d1 - d0) * (k - f)
ComputePercentile100(data, percentile) ==
    IF data = <<>> THEN 0
    ELSE LET sorted == Sort(data)
             k100 == (Len(sorted) - 1) * percentile
             f == k100 \div 100
             c == (k100 + 99) \div 100
         IN IF f = c THEN sorted[f + 1] * 100
            ELSE sorted[f + 1] * 100
                 + (sorted[c + 1] - sorted[f + 1]) * (k100 - f * 100)

PercentileCall(data, percentile) ==
    /\ pct_log' = [data |-> data, p |-> percentile,
                   value100 |-> ComputePercentile100(data, percentile)]
    /\ UNCHANGED <<query_log, detect_log, series_log, db_status, ingest_req,
                   ingest_log>>
    /\ UNCHANGED coreVars

NextPercentile ==
    \E data \in SampleLists, percentile \in Percentiles :
       PercentileCall(data, percentile)

SpecPercentile == Init /\ [][NextPercentile]_vars

(***************************************************************************)
(* POST /v1/ingest: db_ready_middleware, then the route                    *)
(***************************************************************************)
\* verify_api_key on a valid key, lines 50-51 (lines 46-47 with the dev
\* default): the tenant of the request
VerifyApiKey(header_tenant) ==
    IF header_tenant = NoTenantId THEN "default-tenant" ELSE header_tenant

\* hasattr(payload, "tenant_id"): IngestionPayload declares the field
HasTenantId == TRUE

\* line 67: the tenant_id handed to service.enqueue
EnqueueTenantId(req) ==
    IF HasTenantId THEN req.body_tenant ELSE "tenant_default"

Respond(code, status, ingested, enqueued, req) ==
    [code |-> code, status |-> status, ingested |-> ingested,
     enqueued |-> enqueued, n |-> req.n, authed |-> req.authed,
     db |-> db_status, header_tenant |-> req.header_tenant,
     body_tenant |-> req.body_tenant,
     tenant |-> IF enqueued > 0 THEN EnqueueTenantId(req) ELSE NotEnqueued]

\* _probe_database_with_retry and the lifespan set app.state.db_status
\* while requests are served
ProbeDatabase(status) ==
    /\ status # db_status
    /\ status # "unknown"
    /\ status = "connecting" => db_status = "unknown"
    /\ db_status' = status
    /\ UNCHANGED <<query_log, detect_log, series_log, pct_log, ingest_req,
                   ingest_log>>
    /\ UNCHANGED coreVars

\* db_ready_middleware on a request with n events: 503 "unavailable" unless
\* db_status is "connected", else the request goes on to the route
RequestArrives(n, authed, header_tenant, body_tenant) ==
    /\ ingest_req.pc = "none"
    /\ LET req == [pc |-> "route", n |-> n, authed |-> authed,
                   header_tenant |-> header_tenant,
                   body_tenant |-> body_tenant]
       IN IF db_status # "connected"
          THEN /\ ingest_log' = Respond(503, "unavailable", 0, 0, req)
               /\ UNCHANGED ingest_req
          ELSE /\ ingest_req' = req
               /\ UNCHANGED ingest_log
    /\ UNCHANGED <<query_log, detect_log, series_log, pct_log, db_status>>
    /\ UNCHANGED coreVars

\* ingest(): the events are dropped and counted while db_status is not
\* "connected"; else verify_api_key, the answer to an empty array, and
\* service.enqueue followed by "accepted"
RouteRuns ==
    /\ ingest_req.pc = "route"
    /\ ingest_log' =
          IF db_status # "connected"
          THEN Respond(200, "accepted", ingest_req.n, 0, ingest_req)
          ELSE IF ~ingest_req.authed
          THEN Respond(401, "unauthorized", 0, 0, ingest_req)
          ELSE IF ingest_req.n = 0
          THEN Respond(200, "ok", 0, 0, ingest_req)
          ELSE Respond(200, "accepted", ingest_req.n, ingest_req.n,
                       ingest_req)
    /\ ingest_req' = NoRequest
    /\ UNCHANGED <<query_log, detect_log, series_log, pct_log, db_status>>
    /\ UNCHANGED coreVars

NextIngestApi ==
    \/ \E status \in DbStatuses : ProbeDatabase(status)
    \/ \E n \in 0..MaxRequestEvents, authed \in BOOLEAN,
          header_tenant \in HeaderTenants, body_tenant \in BodyTenants :
          RequestArrives(n, authed, header_tenant, body_tenant)
    \/ RouteRuns

SpecIngestApi == Init /\ [][NextIngestApi]_vars

(***************************************************************************)
(* Properties of incident grouping (checked under SpecDedup)               *)
(***************************************************************************)
SameGroup(row) ==
    /\ row.tenant_id = det_log.tenant
    /\ row.fingerprint = det_log.fingerprint

RowsBefore == {det_log.before[i] : i \in 1..Len(det_log.before)}

\* the latest detection ran with the incident store answering
StoreAnswered == det_log.n > 0 /\ det_log.db = "ok"

\* a row of the detection's tenant and fingerprint last touched less than
\* 24 hours before the detection
TouchedInWindow ==
    \E row \in RowsBefore :
        /\ SameGroup(row)
        /\ row.timestamp > det_log.dt - DedupWindow
        /\ row.timestamp <= det_log.dt

C3_CountAndTimestampAdvance ==
    /\ \A i \in 1..Len(incidents) :
          i > Len(det_log.before) => incidents[i].occurrence_count = 1
    /\ \A i \in 1..Len(det_log.before) :
          /\ incidents[i].id = det_log.before[i].id
          /\ \/ incidents[i] = det_log.before[i]
             \/ /\ incidents[i].occurrence_count
                      = det_log.before[i].occurrence_count + 1
                /\ incidents[i].timestamp >= det_log.before[i].timestamp

\* every row of the detection's tenant and fingerprint is more than 24 hours old
OnlyExpiredRows ==
    /\ \E row \in RowsBefore : SameGroup(row)
    /\ \A row \in RowsBefore :
          SameGroup(row) => row.timestamp < det_log.dt - DedupWindow

\* C4: a detection whose fingerprint matches only rows of the tenant last
\* touched more than 24 hours earlier inserts a new row with
\* occurrence_count = 1 and hands that row to process_incident.
C4_ExpiredWindowInsertsAndAlerts ==
    (StoreAnswered /\ OnlyExpiredRows) =>
        /\ Len(incidents) = Len(det_log.before) + 1
        /\ incidents[Len(incidents)].occurrence_count = 1
        /\ incidents[Len(incidents)].timestamp = det_log.dt
        /\ SameGroup(incidents[Len(incidents)])
        /\ \A i \in 1..Len(det_log.before) : incidents[i] = det_log.before[i]
        /\ Len(dispatched) > 0
        /\ dispatched[Len(dispatched)] = incidents[Len(incidents)].id

C4_Witness ==
    /\ StoreAnswered
    /\ OnlyExpiredRows
    /\ Len(incidents) = 2
    /\ dispatched = <<1, 2>>

(***************************************************************************)
(* Properties of the running pipeline (checked under Spec)                 *)
(***************************************************************************)
Range(f) == {f[i] : i \in DOMAIN f}

WorkerAlive == worker \in {"wait", "write", "backoff"}

\* C5: after a failed or timed out write the worker still holds the events of
\* that write, in order, at the head of its batch; the next write it submits
\* carries them again and starts no earlier than the 5 s backoff; and while
\* the worker runs an event it took from the queue is either in its batch or
\* in storage.
C5_FailedBatchRetained ==
    /\ (WorkerAlive /\ failed_write # NoFail) =>
          /\ IsPrefix(failed_write.items, batch)
          /\ worker = "write" =>
                /\ IsPrefix(failed_write.items, call.items)
                /\ now >= failed_write.at + Backoff
    /\ WorkerAlive =>
          \A id \in accepted :
              id \in Ids(queue) \cup Ids(batch) \cup Range(stored)

C5_Witness ==
    /\ worker = "write"
    /\ failed_write # NoFail
    /\ call.who = "worker"
    /\ IsPrefix(failed_write.items, call.items)

\* C6: no enqueue call is held up while the worker is stalled in a storage
\* write or in its backoff: it has put all its events, or the queue has room
\* for the next one.
C6_EnqueueNeverWaits ==
    (pending # <<>> /\ worker \in {"write", "backoff"})
        => Len(queue) < QueueMaxsize

\* C7: the worker flushes exactly when its batch is non-empty and holds
\* max_batch_size events or flush_interval has elapsed since the last flush,
\* and a batch that reached max_batch_size never waits unless it is a batch
\* retained after a failed write.
C7_FlushOnSizeOrInterval ==
    /\ last_check.flushed <=>
          /\ last_check.len > 0
          /\ \/ last_check.len >= MaxBatchSize
             \/ last_check.elapsed >= FlushInterval
    /\ (worker = "wait" /\ failed_write = NoFail) => Len(batch) < MaxBatchSize

\* the first max_batch_size events were flushed at once on arrival, the next
\* one is flushed alone when the interval has elapsed
C7_Witness ==
    /\ worker = "write"
    /\ IdSeq(call.items) = <<MaxBatchSize + 1>>
    /\ call.items[1].ingested_at < now
    /\ Len(stored) = MaxBatchSize
    /\ last_check.flushed
    /\ last_check.len = 1
    /\ last_check.elapsed = FlushInterval
    /\ now = FlushInterval

\* C8: when stop() has returned, every event enqueue accepted before it is in
\* storage or was submitted to the final storage write.
C8_StopFlushesEverything ==
    stop_pc = "done" => accepted \subseteq (Range(stored) \cup final_ids)

\* C9: an enqueue call made once stop() has begun places no event in the
\* internal queue.
C9_NoEnqueueAfterStop ==
    late_accepted = {}

\* C10: every event of a batch whose storage write failed or timed out has
\* gone through rule evaluation, failure detection and broadcast.
C10_FailedWriteStillProcessed ==
    \A id \in failed_ids : processed[id] > 0

(***************************************************************************)
(* Properties of the real-time fan-out (checked under SpecStream)          *)
(***************************************************************************)
\* everything the managers and the sender loop hold about a socket
Entry(s) ==
    <<IF s \in DOMAIN active_connections
      THEN <<active_connections[s]>> ELSE <<>>,
      IF s \in DOMAIN client_queues THEN <<client_queues[s]>> ELSE <<>>,
      s \in client_tasks,
      {t \in DOMAIN clients : InList(clients[t], s)},
      sender[s]>>

\* nothing is held about the socket and its sender loop has ended
NoEntry == <<<<>>, <<>>, FALSE, {}, [pc |-> "done", item |-> NoEvent]>>

\* the tenant a registered subscriber is bound to
SubTenant(s) ==
    IF conn[s].gen = 1 THEN active_connections[s].tenant_id
    ELSE CHOOSE t \in DOMAIN clients : InList(clients[t], s)

\* the event is of the subscriber's tenant and satisfies its filter
Wanted(s, event) ==
    /\ event.tenant_id = SubTenant(s)
    /\ conn[s].gen = 1 =>
          LET f == active_connections[s].filters
          IN /\ f.has_node => event.node = f.node
             /\ f.incident_only => event.incident_flag

\* the events published since s subscribed that s wants, in publish order
Offered(s) ==
    SelectSeq(SubSeq(published, since[s] + 1, Len(published)),
              LAMBDA e : Wanted(s, e))

Last(s) == s[Len(s)]

IsSuffix(s, t) ==
    /\ Len(s) <= Len(t)
    /\ \A i \in 1..Len(s) : s[i] = t[Len(t) - Len(s) + i]

\* C11: a subscriber queue never holds more than its capacity; it holds the
\* most recent of the events offered to it, in publish order, and as long as
\* nothing was drained it holds exactly the min(capacity, offered) most recent
\* ones: each publish at a full queue dropped exactly the oldest item.
C11_DropOldestKeepsNewest ==
    \A s \in Sockets :
        Registered(s) =>
            /\ Len(QueueOf(s)) <= SubscriberQueueMax
            /\ IsSuffix(QueueOf(s), Offered(s))
            /\ ~drained[s] =>
                  Len(QueueOf(s)) = Min(SubscriberQueueMax, Len(Offered(s)))

\* more publishes than the capacity without a drain
C11_Witness ==
    \E s \in Sockets :
        /\ Registered(s)
        /\ ~drained[s]
        /\ Len(Offered(s)) > SubscriberQueueMax
        /\ Len(QueueOf(s)) = SubscriberQueueMax

\* C12: every event in a subscriber's queue, and the event its sender loop is
\* sending, is of the subscriber's tenant and satisfies its filter (the
\* filter's node when one is set, the incident flag when incident_only).
C12_FilterIsolation ==
    \A s \in Sockets :
        Registered(s) =>
            /\ \A i \in 1..Len(QueueOf(s)) : Wanted(s, QueueOf(s)[i])
            /\ sender[s].pc = "send" => Wanted(s, sender[s].item)

\* a burst with an event of another tenant and an event of another node, of
\* which a node-filtered subscriber holds only the one it wants
C12_Witness ==
    \E s \in Sockets :
        /\ Registered(s)
        /\ conn[s].gen = 1
        /\ active_connections[s].filters.has_node
        /\ since[s] = 0
        /\ Len(QueueOf(s)) = 1
        /\ \E i, j \in 1..Len(published) :
              /\ published[i].tenant_id # SubTenant(s)
              /\ published[j].tenant_id = SubTenant(s)
              /\ published[j].node # active_connections[s].filters.node

\* C13: once unsubscribe / remove_client was called for a socket, no registry
\* entry, queue or task of it is left, its sender loop has ended and no tenant
\* is left with an empty list; a further call for the same socket changes
\* nothing.
C13_UnsubscribeRemovesAll ==
    /\ [](/\ \A s \in Sockets : unsub_calls[s] > 0 => Entry(s) = NoEntry
          /\ \A t \in DOMAIN clients : clients[t] # <<>>)
    /\ [][\A s \in Sockets :
            (unsub_calls[s] > 0 /\ unsub_calls'[s] > unsub_calls[s]) =>
                UNCHANGED <<active_connections, clients, client_queues,
                            client_tasks, sender>>]_vars

\* a socket unsubscribed twice while the other one is still served
C13_Witness ==
    \E s, o \in Sockets :
        /\ unsub_calls[s] >= 2
        /\ Registered(o)
        /\ QueueOf(o) # <<>>

\* C14: a step in which a send to s fails (an event frame or a heartbeat)
\* leaves nothing of s registered and its sender loop ended, and leaves the
\* entry, the queue and the sender loop of every other socket as they were;
\* and every publish puts its event last in the queue of every registered
\* subscriber that wants it.
C14_SendFailureIsolated ==
    [][/\ \A s \in Sockets :
             (SenderSendFails(s) \/ HeartbeatFails(s)) =>
                 /\ Entry(s)' = NoEntry
                 /\ \A o \in Sockets \ {s} : Entry(o)' = Entry(o)
       /\ published' # published =>
             \A o \in Sockets :
                 (Registered(o) /\ Wanted(o, Last(published'))) =>
                     /\ Registered(o)'
                     /\ QueueOf(o)' # <<>>
                     /\ Last(QueueOf(o)') = Last(published')]_vars

\* s was torn down by a failed send, its handler still open; the other
\* subscriber holds an event published at the end of the run
C14_Witness ==
    \E s, o \in Sockets :
        /\ conn[s].pc = "open"
        /\ unsub_calls[s] = 1
        /\ Registered(o)
        /\ Len(published) = MaxPublishes
        /\ QueueOf(o) # <<>>
        /\ Last(QueueOf(o)) = Last(published)


\* the rules a list holds
RulesOf(rules) == {rules[i] : i \in 1..Len(rules)}

\* rule r is enabled and its condition holds for the event
Fires(r, event) ==
    /\ RuleCatalog[r].enabled
    /\ event.duration > RuleCatalog[r].threshold

\* C15: evaluate_event returns the enabled rule of highest priority whose
\* condition matches the event (None when there is none), evaluates no rule
\* of lower priority than the one it returns, and never evaluates or returns a
\* disabled rule; of two enabled matching rules only the higher one fires.
C15_HighestPriorityWins ==
    LET given == RulesOf(eval_log.rules)
        seen == RulesOf(eval_log.evaluated)
        won == eval_log.result
    IN /\ \A r \in seen \cup ({won} \ {0}) : r \in given /\ RuleCatalog[r].enabled
       /\ won = 0 => \A r \in given : ~Fires(r, RuleEvent)
       /\ won # 0 =>
             /\ Fires(won, RuleEvent)
             /\ \A r \in given :
                   Fires(r, RuleEvent) =>
                      RuleCatalog[r].priority <= RuleCatalog[won].priority
             /\ \A r \in seen :
                   RuleCatalog[r].priority >= RuleCatalog[won].priority
             /\ \A r \in seen \ {won} : ~Fires(r, RuleEvent)

\* two enabled matching rules were handed to the engine: the one of priority 2
\* fired and the one of priority 1 was not evaluated
C15_Witness ==
    /\ {1, 2} \subseteq RulesOf(eval_log.rules)
    /\ eval_log.result = 2
    /\ 1 \notin RulesOf(eval_log.evaluated)

\* the calls that are inside the storage fetch
Fetching == {c \in Getters : getter[c].pc \in {"fetch", "fetched"}}

\* the entry of the tenant is present and younger than cache_ttl at time at
WithinTtl(at) == last_refresh # NoRefresh /\ at - last_refresh < CacheTtl

\* C16: at no time are two storage fetches in flight; a call that waited for
\* the lock while another call's fetch stored the entry does not fetch but
\* returns the stored value; a call made within the TTL of the cached entry
\* returns it without a fetch and without the lock.
C16_SingleFetch ==
    /\ [](/\ Cardinality(Fetching) <= 1
          /\ \A c \in Fetching : Head(rule_lock) = c /\ ~getter[c].served
          /\ \A c \in Getters :
                getter[c].pc = "lockwait" /\ getter[c].served
                   => WithinTtl(getter[c].at))
    /\ [][\A c \in Getters :
             /\ (GetCall(c) /\ WithinTtl(rule_now)) =>
                   /\ getter'[c].pc = "idle"
                   /\ rule_lock' = rule_lock
                   /\ last_get'.who = c /\ ~last_get'.fetched
                   /\ last_get'.ver = rule_cache.ver
             /\ (GetGranted(c) /\ getter[c].served) =>
                   /\ getter'[c].pc = "idle"
                   /\ last_get'.who = c /\ ~last_get'.fetched
                   /\ last_get'.ver = rule_cache.ver]_vars

\* a call that found no usable entry waited for the lock and returned the
\* value the other call's fetch had stored
C16_Witness ==
    /\ last_get.waited
    /\ ~last_get.fetched
    /\ ~last_get.hit
    /\ last_get.ok

Ended(d) == deliveries[d].pc \in {"ok", "failed"}

\* C18: a webhook delivery makes at most 3 POST attempts; an attempt that
\* ends with a 2xx response ends the delivery with success; one that ends with
\* a non-2xx response, a timeout or any other error is followed by another
\* attempt unless it was the third, after which the delivery ends with
\* failure; a delivery that has ended makes no further attempt and nothing
\* is created in its place.
C18_BoundedRetries ==
    /\ [](\A d \in DOMAIN deliveries :
             /\ deliveries[d].attempts <= 3
             /\ deliveries[d].pc = "failed" => deliveries[d].attempts = 3
             /\ deliveries[d].pc = "ok" => deliveries[d].attempts >= 1)
    /\ [][\A d \in DOMAIN deliveries :
             /\ Ended(d) => deliveries'[d] = deliveries[d]
             /\ \A outcome \in PostOutcomes :
                   PostReturns(d, outcome) =>
                      /\ Len(deliveries') = Len(deliveries)
                      /\ deliveries'[d].attempts = deliveries[d].attempts + 1
                      /\ deliveries'[d].pc =
                            IF outcome = "2xx" THEN "ok"
                            ELSE IF deliveries[d].attempts + 1 < 3 THEN "post"
                            ELSE "failed"]_vars

\* one delivery failed after its third attempt and another succeeded at its
\* second
C18_Witness ==
    \E d, e \in DOMAIN deliveries :
       /\ deliveries[d].pc = "failed" /\ deliveries[d].attempts = 3
       /\ deliveries[e].pc = "ok" /\ deliveries[e].attempts = 2

\* the stored alert rules of the incident's tenant that fire for it
StoredFiring(incident) ==
    {r \in alert_rules :
        /\ AlertRuleCatalog[r].tenant_id = incident.tenant_id
        /\ AlertRuleCatalog[r].failure_type = incident.failure_type
        /\ AlertRuleCatalog[r].node_name \in {NoNode, incident.node_name}
        /\ AlertRuleCatalog[r].webhook_url # ""}

\* C19: a dispatch whose rule lookup was answered starts exactly one delivery
\* for each stored alert rule of the incident's tenant that fires for the
\* incident, and no other delivery: none when the tenant has no such rule.
C19_OneDeliveryPerStoredRule ==
    [][\A t \in DOMAIN alert_tasks :
          EvaluateAndFireAlerts(t, "answered") =>
             LET started == {d \in DOMAIN deliveries' : deliveries'[d].task = t}
             IN /\ \A d \in started :
                      deliveries'[d].rule \in StoredFiring(alert_tasks[t].incident)
                /\ \A r \in StoredFiring(alert_tasks[t].incident) :
                      Cardinality({d \in started : deliveries'[d].rule = r}) = 1]_vars

\* what the caller of process_incident does next never depends on a dispatch
CallerCanGoOn ==
    (alert_worker.handed < MaxIncidents
        /\ alert_worker.handed < Cardinality(IncidentChoices))
       => ENABLED (\E incident \in IncidentChoices : ProcessIncident(incident))

\* C20: process_incident returns without waiting for the dispatch task; no
\* step of a dispatch task or of a delivery (a failed rule lookup, an
\* exception inside the task, a webhook failing on every attempt) changes the
\* caller's state, and the caller can hand over the next incident whatever
\* became of the earlier dispatches.
C20_DispatchNeverReachesIngestion ==
    /\ [](alert_worker.wait = 0 /\ CallerCanGoOn)
    /\ [][/\ \A t \in DOMAIN alert_tasks, outcome \in LookupOutcomes :
                EvaluateAndFireAlerts(t, outcome)
                   => alert_worker' = alert_worker
          /\ \A d \in DOMAIN deliveries, outcome \in PostOutcomes :
                PostReturns(d, outcome) => alert_worker' = alert_worker
          /\ alert_worker' # alert_worker
                => /\ alert_worker'.handed = alert_worker.handed + 1
                   /\ Len(alert_tasks') = Len(alert_tasks) + 1
                   /\ deliveries' = deliveries]_vars

\* the first dispatch ended on an exception or a failed lookup, a webhook
\* failed on every attempt, and the caller has handed over a later incident
C20_Witness ==
    /\ alert_worker.handed = MaxIncidents
    /\ Len(alert_tasks) >= 2
    /\ alert_tasks[1].lookup \in {"failed", "raised"}
    /\ alert_tasks[2].pc = "created"
    /\ \E d \in DOMAIN deliveries : deliveries[d].pc = "failed"


\* C21: for every resource kind, a search whose fetch exceeds the timeout
\* or whose storage raises returns data = [] with partial = true and raises
\* nothing; a search whose fetch completes normally returns partial = false.
C21_SearchNeverRaises ==
    /\ ~query_log.raised
    /\ query_log.storage \in {"slow", "failing"}
          => query_log.data = <<>> /\ query_log.partial
    /\ query_log.storage = "ok" => ~query_log.partial

\* C22: the number of items a search returns is at most
\* min(requested limit, max_limit).
C22_ResultCap ==
    Len(query_log.data) <= Min(query_log.limit, MaxLimit)

\* a node search asked for more than max_limit items while more than
\* max_limit match: max_limit items came back
C22_Witness ==
    /\ query_log.kind = "nodes"
    /\ query_log.limit > MaxLimit
    /\ query_log.storage = "ok"
    /\ Len(Flatten(EventRows)) > MaxLimit
    /\ Len(query_log.data) = MaxLimit


\* the payload is well formed as far as the detector reads it: a mapping
\* whose node list is a list
Scanned(execution) == execution.is_dict /\ NodesOf(execution).is_list

\* the nodes of a list whose metadata is a mapping that holds a marker
FailingNodes(items) ==
    {i \in 1..Len(items) : items[i] \in Markers}

\* C23: the detector never raises; it returns no detection for a payload
\* that is not a mapping or whose node list is not a list, and skips a node
\* or a metadata that is not a mapping; otherwise it returns a runtime_error
\* skeleton for the first node (of graph.nodes if present, else of nodes)
\* whose metadata holds error, exception or traceback, and no detection if
\* there is none.
C23_DetectorTotal ==
    LET execution == detect_log.payload
        result == detect_log.result
        items == NodesOf(execution).items
    IN /\ ~result.raised
       /\ ~Scanned(execution) => ~result.found
       /\ Scanned(execution) /\ FailingNodes(items) = {} => ~result.found
       /\ Scanned(execution) /\ FailingNodes(items) # {} =>
             /\ result.found
             /\ result.failure_type = "runtime_error"
             /\ result.node \in FailingNodes(items)
             /\ \A i \in FailingNodes(items) : result.node <= i
       /\ execution.is_dict /\ execution.graph = "nodes"
             => items = execution.graph_nodes.items
       /\ execution.is_dict /\ execution.graph # "nodes" /\ execution.has_nodes
             => items = execution.nodes.items

\* graph.nodes holds a node that is not a mapping and a node whose metadata
\* holds a marker, while the payload's own nodes differ: the second node of
\* graph.nodes was reported
C23_Witness ==
    /\ detect_log.payload.graph = "nodes"
    /\ detect_log.payload.has_nodes
    /\ detect_log.payload.graph_nodes.is_list
    /\ Len(detect_log.payload.graph_nodes.items) = 2
    /\ detect_log.payload.graph_nodes.items[1] \in {"notdict", "meta_notdict"}
    /\ detect_log.result.found
    /\ detect_log.result.node = 2


\* the events of a stream that fall into the bucket that starts at start
EventsIn(events, start, interval) ==
    {i \in 1..Len(events) :
        start <= events[i].ts /\ events[i].ts < start + interval}

RECURSIVE SumCounts(_)
SumCounts(series) ==
    IF series = <<>> THEN 0 ELSE Head(series).count + SumCounts(Tail(series))

\* C24: every streamed event is counted in exactly one emitted bucket, the
\* bucket that starts at floor(timestamp / interval) * interval: the counts
\* add up to the number of events, a bucket's errors are its FAILED events
\* and its error rate is errors / count * 100, and the buckets are emitted
\* in strictly ascending order of their start.
C24_Buckets ==
    series_log.pc = "done" =>
       LET series == series_log.series
           events == series_log.events
           interval == series_log.interval
       IN /\ SumCounts(series) = Len(events)
          /\ \A i \in 1..Len(events) :
                \E j \in 1..Len(series) :
                   i \in EventsIn(events, series[j].start, interval)
          /\ \A j \in 1..Len(series) :
                LET mine == EventsIn(events, series[j].start, interval)
                IN /\ series[j].start % interval = 0
                   /\ series[j].count = Cardinality(mine)
                   /\ series[j].count > 0
                   /\ series[j].errors =
                         Cardinality({i \in mine : events[i].failed})
                   /\ 2 * (IF series[j].error_rate100 * series[j].count
                              >= series[j].errors * 10000
                           THEN series[j].error_rate100 * series[j].count
                                - series[j].errors * 10000
                           ELSE series[j].errors * 10000
                                - series[j].error_rate100 * series[j].count)
                         <= series[j].count
          /\ \A j \in 1..(Len(series) - 1) :
                series[j].start < series[j + 1].start

\* a stream with an event before the epoch and several events of one
\* bucket, some of them FAILED, was aggregated into two buckets or more
C24_Witness ==
    /\ series_log.pc = "done"
    /\ series_log.interval > 1
    /\ Len(series_log.series) >= 2
    /\ \E i \in 1..Len(series_log.events) : series_log.events[i].ts < 0
    /\ \E j \in 1..Len(series_log.series) :
          /\ series_log.series[j].count >= 2
          /\ series_log.series[j].errors = 1


\* the samples of a list in ascending order: the ascending list that holds
\* every value as often as the list does
Ranked(data) ==
    CHOOSE s \in [1..Len(data) -> {data[i] : i \in 1..Len(data)}] :
       /\ \A i \in 1..(Len(s) - 1) : s[i] <= s[i + 1]
       /\ \A v \in {data[i] : i \in 1..Len(data)} :
             Cardinality({i \in 1..Len(s) : s[i] = v})
                = Cardinality({i \in 1..Len(data) : data[i] = v})

\* C25: the percentile of no sample is 0; otherwise it is the value at rank
\* k = (n - 1) * p / 100 of the ascending samples, the sample itself when k
\* is whole and the linear interpolation of its two neighbours when not;
\* p50 of [10, 20, 30, 40, 50] is 30; the result lies between the smallest
\* and the largest sample.
C25_Percentile ==
    LET data == pct_log.data
        n == Len(data)
        k100 == (n - 1) * pct_log.p
        below == k100 \div 100
        part == k100 % 100
        s == Ranked(data)
    IN /\ n = 0 => pct_log.value100 = 0
       /\ n > 0 /\ part = 0 => pct_log.value100 = s[below + 1] * 100
       /\ n > 0 /\ part # 0 =>
             pct_log.value100 =
                s[below + 1] * (100 - part) + s[below + 2] * part
       /\ n > 0 => /\ \E i \in 1..n : data[i] * 100 <= pct_log.value100
                   /\ \E j \in 1..n : pct_log.value100 <= data[j] * 100
       /\ Ranked(data) = ExampleSamples /\ pct_log.p = 50
             => pct_log.value100 = 3000

\* the p50 of the documented samples, given out of order, was computed, and
\* so was an interpolated value
C25_Witness ==
    \/ /\ pct_log.data = ExampleShuffled
       /\ pct_log.p = 50
       /\ pct_log.value100 = 3000
    \/ /\ pct_log.data = <<30, 10>>
       /\ pct_log.p = 25
       /\ pct_log.value100 = 1500


\* C26: an authenticated ingest request is answered "accepted" with
\* ingested = n after its n > 0 events were enqueued and "ok" with
\* ingested = 0 for an empty events array, whatever the state of the
\* database connection; an empty array never yields an error and an event
\* counted as ingested was enqueued.
C26_IngestResponse ==
    ingest_log.code # 0 /\ ingest_log.authed =>
       /\ ingest_log.code = 200
       /\ ingest_log.ingested <= ingest_log.enqueued
       /\ ingest_log.n > 0 =>
             /\ ingest_log.status = "accepted"
             /\ ingest_log.ingested = ingest_log.n
             /\ ingest_log.enqueued = ingest_log.n
       /\ ingest_log.n = 0 =>
             /\ ingest_log.status = "ok"
             /\ ingest_log.ingested = 0


\* the events of committed storage writes
StoredIds == {stored[k] : k \in 1..Len(stored)}

C28_PersistedOnce ==
    \A j, k \in 1..Len(stored) : j # k => stored[j] # stored[k]

\* C29: an error raised while an event of the batch is processed does not
\* abort the batch: the worker's write goes on to the next event, and after
\* the last one it returns success and the worker clears the batch.
C29_BatchNotAborted ==
    [][call.who = "worker" /\ call.phase = "process" /\ is_running'
       /\ call' # call
          => IF call.idx < Len(call.items)
             THEN call' = [call EXCEPT !.idx = @ + 1]
             ELSE call' = NoCall /\ batch' = <<>> /\ worker' = "wait"]_vars

\* C30: between start() and stop() the worker task is alive, whatever
\* failed before; the task ends in stop() only.
C30_WorkerNeverExits ==
    /\ [](is_running => worker \in {"wait", "write", "backoff", "crashed"})
    /\ [][worker # "dead" /\ worker' = "dead"
             => is_running /\ ~is_running']_vars

\* the worker is alive, asleep in its exception handler, after a storage
\* write that failed and an exception raised by the batch it then wrote
C30_Witness ==
    /\ is_running
    /\ worker = "crashed"
    /\ \E i \in failed_ids : i \in StoredIds


\* C31: the worker's batch never holds more than max_batch_size events, also
\* while a batch whose write failed is kept and further events arrive.
C31_BatchBounded ==
    Len(batch) <= MaxBatchSize

C37_IngestedPublishedOnce ==
    \A i \in AllIds : stream_published[i] <= 1


\* C38: a fetch of the rules that failed changes neither the cached entry
\* nor its age, so that no call is served an empty rule list out of the
\* cache because storage failed before.
C38_FailedFetchNotCached ==
    /\ [](rule_cache.ok)
    /\ [][\A c \in Getters :
             (FetchReturn(c) /\ ~getter[c].ok)
                => rule_cache' = rule_cache /\ last_refresh' = last_refresh]_vars
    /\ []((last_get.hit /\ rule_db # {}) => last_get.ok)

(***************************************************************************)
(* The two stream managers in one process.  /stream hands its socket to    *)
(* stream_manager.subscribe (app/stream/manager.py) with the filters of    *)
(* the request; _write_batch hands the frames of a written batch to        *)
(* stream_manager_v2.broadcast_event (app/stream/stream_manager.py).       *)
(***************************************************************************)
\* _write_batch, lines 208-235: the frame of a written event goes to
\* stream_manager_v2, whose registry is `clients`
IngestBroadcast ==
    /\ Len(published) < MaxPublishes
    /\ \E c \in PublishChoices :
          LET event == StreamEvent(2, Len(published) + 1, c[1], c[2], c[3])
              sockets == IF event.tenant_id \in DOMAIN clients
                         THEN clients[event.tenant_id] ELSE <<>>
          IN /\ client_queues' =
                    [ws \in DOMAIN client_queues |->
                        IF InList(sockets, ws)
                        THEN Enqueued(client_queues[ws], event)
                        ELSE client_queues[ws]]
             /\ published' = Append(published, event)
    /\ UNCHANGED <<conn, active_connections, clients, client_tasks, sender,
                   heartbeat, since, drained, unsub_calls>>
    /\ UNCHANGED <<pipelineVars, ruleVars, alertVars, apiVars>>

NextFanout ==
    \/ IngestBroadcast
    \/ \E s \in Sockets :
          \/ Subscribe(s)
          \/ SubscribeAck(s)
          \/ RegisterClient(s)
          \/ SenderGet(s)
          \/ SenderSendOk(s)
          \/ SenderSendFails(s)
          \/ HeartbeatFails(s)
          \/ HeartbeatExit(s)
          \/ Disconnect(s)

SpecFanout == Init /\ [][NextFanout]_vars

\* C39: every step that publishes an event hands it to every subscriber
\* registered through subscribe(websocket, tenant_id, filters) whose tenant
\* and filter the event satisfies: the event is the newest item of that
\* subscriber's queue after the step.
C39_SubscribersReceiveIngested ==
    [][\A s \in Sockets :
          (/\ s \in DOMAIN active_connections
           /\ Len(published') = Len(published) + 1
           /\ Matches(active_connections[s], Last(published')))
             => /\ s \in DOMAIN active_connections'
                /\ active_connections'[s].queue # <<>>
                /\ Last(active_connections'[s].queue) = Last(published')]_vars

\* C35: an aggregation during which storage raised or stopped answering does
\* not end in an exception handed to the HTTP layer and is not left awaiting
\* storage without a timeout.
C35_StorageFailureContained ==
    series_log.pc \notin {"storage_error", "no_answer"}

\* C36: a row with a malformed aggregation field does not make
\* aggregate_timeseries raise.
C36_MalformedFieldsAbsent == series_log.pc # "field_error"

\* C40: the events of an ingest request are enqueued under the tenant that
\* verify_api_key resolved for it, and the same request with any other
\* tenant_id in its body enqueues under that same tenant.
C40_TenantFromAuthentication ==
    ingest_log.enqueued > 0 =>
       /\ ingest_log.tenant = VerifyApiKey(ingest_log.header_tenant)
       /\ \A b \in BodyTenants :
             EnqueueTenantId([pc |-> "route", n |-> ingest_log.n,
                              authed |-> ingest_log.authed,
                              header_tenant |-> ingest_log.header_tenant,
                              body_tenant |-> b]) = ingest_log.tenant

\* C34: a _write_batch call that wrote its batch to storage takes every event
\* of the batch through the broadcast stage: each step of its loop hands over
\* the frames of the event it is at and goes on to the next event, and the
\* call ends only after the last one; no event of the batch is skipped.
C34_FramePerWrittenEvent ==
    [][call.phase = "process" /\ call' # call
          => /\ processed'[call.items[call.idx].id] =
                   processed[call.items[call.idx].id] + 1
             /\ call.idx < Len(call.items)
                   => call' = [call EXCEPT !.idx = @ + 1]]_vars

(***************************************************************************)
(* _write_batch, lines 157-235, one event: rule evaluation under its 50 ms *)
(* timeout, the heuristic detector, the frames handed to broadcast_event.  *)
(***************************************************************************)
\* line 170: result and result.rule.actions.create_incident
RuleIncident(rule) == rule = "incident"

\* line 204: rule_incident or await detect_execution_failure(event_payload)
HeuristicRuns(rule) == ~RuleIncident(rule)

\* lines 186-197, 214-223 and 225-235, in the order the tasks are created
Frames(tenant, rule, incident) ==
    (IF RuleIncident(rule)
     THEN <<[type |-> "rule_triggered", tenant_id |-> tenant]>> ELSE <<>>)
    \o <<[type |-> "execution_graph", tenant_id |-> tenant]>>
    \o (IF incident
        THEN <<[type |-> "incident_created", tenant_id |-> tenant]>>
        ELSE <<>>)

\* one pass of the loop for an event of the tenant: marker says whether
\* detect_execution_failure finds a failing node in it
StageItem(tenant, rule, marker) ==
    /\ Len(stage_log) < MaxStageItems
    /\ LET heuristic == HeuristicRuns(rule)
           source == IF RuleIncident(rule) THEN "rule"
                     ELSE IF heuristic /\ marker THEN "heur" ELSE "none"
       IN stage_log' =
             Append(stage_log,
                    [tenant |-> tenant, rule |-> rule, marker |-> marker,
                     heuristic |-> heuristic, source |-> source,
                     frames |-> Frames(tenant, rule, source # "none")])
    /\ UNCHANGED <<pipelineVars, streamVars, ruleVars, alertVars>>
    /\ UNCHANGED <<query_log, detect_log, series_log, pct_log, db_status,
                   ingest_req, ingest_log>>

NextStage ==
    \E tenant \in Tenants, rule \in RuleOutcomes, marker \in BOOLEAN :
        StageItem(tenant, rule, marker)

SpecStage == Init /\ [][NextStage]_vars

\* C33: the heuristic detector is run for an event when rule evaluation
\* reported no matching rule and is not run when a rule matched, whatever the
\* rule's actions; an event a rule matched gets no incident from the
\* heuristic.
C33_HeuristicOnlyWithoutMatch ==
    \A k \in 1..Len(stage_log) :
        LET e == stage_log[k]
        IN /\ e.rule = "none" => e.heuristic
           /\ e.rule \in {"incident", "quiet"} =>
                 ~e.heuristic /\ e.source # "heur"
====
